---- MODULE Spec2Model ----
(***************************************************************************)
(* A model of the reporting back office (report_system/accounts): the      *)
(* dispensed-litres calculator, the receipt line parser, the fuel-rate     *)
(* lookup with the daily sales report, and the two dashboard aggregators.  *)
(*                                                                         *)
(* Each component has its own group of variables and its own               *)
(* specification; a specification keeps the other groups at their idle     *)
(* values.  Numbers are exact integers: a reading or amount n stands for   *)
(* the Python float n, and 0.5 * m is compared by doubling the other side. *)
(***************************************************************************)
EXTENDS Integers, Sequences, FiniteSets, TLC

VARIABLES
    \* calc_dispensed: the arguments of one call and its outcome
    opening, closing, max_meter, dispensed,
    \* get_rate_for_date: the fetched rates, the arguments and the outcome
    rates, rate_name, report_date_str, rate_value,
    \* the daily report: the clock, the two store tables and the last response
    today, fuel_rates, daily_sales_reports, response,
    \* normalize_item_rows: the argument, the loop's locals and where the call
    \* stands; accounted records, per row, the entries it produced and the
    \* entries it was merged into (a history of the loop, not a local)
    group_rows, index, normalized, parse_pc, accounted,
    \* the dashboards: the clock and the tables of the store
    dash_today, tbl_eod_data, tbl_pos2_stock_data, tbl_pos3_stock_data, tbl_posaud,
    tbl_slip_items,
    \* refresh_dashboard_cache: where the run stands, the rows its loops have
    \* passed, its locals, and the cache
    refresh_pc, refresh_i, eod_data, pos2_data, pos3_data, posaud_data,
    totals, staff_perf, daily_trends, cache,
    \* admin_dashboard: the request's from/to parameters, where the request
    \* stands, the rows passed, the locals of the aggregation, the context
    \* rendered
    request_GET, admin_pc, admin_i, all_data, agg, context,
    \* a second worker of the cluster running refresh_dashboard_cache: where
    \* it stands and the dictionary it built; what a reader last got from the
    \* cache; rows_changed records that the store got other rows (a history
    \* of the store, not a variable of the program)
    worker2_pc, worker2_dashboard, seen, rows_changed,
    \* till_slip_analysis_dynamic: the rows fetched, where the request stands,
    \* the rows its loops have passed, its locals, the context rendered
    all_sales, all_fin, till_pc, till_i, slips, till_totals, till_context,
    \* a fetch loop: the rows the query stands for, the loop's locals and
    \* the page requests made so far
    result_set, page, fetch_all_data, fetch_pc, page_requests,
    \* custom_login_view: the accounts, and per serving process where its
    \* request stands, the form it got, its copy of the account and its
    \* response; the requests begun and, per account, the wrong passwords
    \* checked since the last login (a history, not a field)
    users, login_pc, login_request, user_obj, login_response, logins_begun, wrong_checked

dispVars == <<opening, closing, max_meter, dispensed>>
lookupVars == <<rates, rate_name, report_date_str, rate_value>>
reportVars == <<today, fuel_rates, daily_sales_reports, response>>
parseVars == <<group_rows, index, normalized, parse_pc, accounted>>
storeVars == <<dash_today, tbl_eod_data, tbl_pos2_stock_data, tbl_pos3_stock_data, tbl_posaud,
               tbl_slip_items>>
fetchVars == <<eod_data, pos2_data, pos3_data, posaud_data>>
refreshVars == <<refresh_pc, refresh_i, fetchVars, totals, staff_perf, daily_trends, cache>>
adminVars == <<request_GET, admin_pc, admin_i, all_data, agg, context>>
workerVars == <<worker2_pc, worker2_dashboard, seen, rows_changed>>
dashVars == <<storeVars, refreshVars, adminVars, workerVars>>
tillVars == <<all_sales, all_fin, till_pc, till_i, slips, till_totals, till_context>>
fetchLoopVars == <<result_set, page, fetch_all_data, fetch_pc, page_requests>>
loginVars ==
    <<users, login_pc, login_request, user_obj, login_response, logins_begun, wrong_checked>>
extraVars == <<tillVars, fetchLoopVars, loginVars>>
vars == <<dispVars, lookupVars, reportVars, parseVars, dashVars, extraVars>>

(***************************************************************************)
(* Python values and outcomes                                              *)
(***************************************************************************)
\* A Python value as calc_dispensed sees it: None, a number, a text that
\* float() parses to a number, a text float() rejects (ValueError), and an
\* object float() cannot take at all (TypeError, e.g. a list).
None == [t |-> "None"]
Num(n) == [t |-> "num", v |-> n]
NumStr(n) == [t |-> "numstr", v |-> n]
BadStr == [t |-> "badstr"]
Txt(str) == [t |-> "str", s |-> str]
Obj == [t |-> "obj"]

\* The outcome of a call: a returned value, or an exception left uncaught.
Return(x) == [kind |-> "return", v |-> x]
Raise(e) == [kind |-> "raise", exc |-> e]
Pending == [kind |-> "pending"]

\* float(x): the number, or the exception float() raises.
ToFloat(x) ==
    CASE x.t = "num" -> [ok |-> TRUE, v |-> x.v]
      [] x.t = "numstr" -> [ok |-> TRUE, v |-> x.v]
      [] x.t \in {"badstr", "str"} -> [ok |-> FALSE, exc |-> "ValueError"]
      [] OTHER -> [ok |-> FALSE, exc |-> "TypeError"]

(***************************************************************************)
(* calc_dispensed (views.py)                                               *)
(***************************************************************************)
MaxMeterDefault == 100000

\* Bounds of the readings and meter maxima tried besides the documented ones.
MaxReading == 6
MaxMeterSmall == 5

SmallReadings == (0 - 2)..MaxReading
BigReadings == {490, 500, 49999, 50000, 50001, 99000, MaxMeterDefault, 250000}
Readings ==
    {None, BadStr, Obj}
        \cup {Num(n) : n \in SmallReadings \cup BigReadings}
        \cup {NumStr(n) : n \in {0, 3, 500}}
MeterMaxes == ((0 - 1)..MaxMeterSmall) \cup {MaxMeterDefault}

\* except (TypeError, ValueError): the exceptions the conversion guard catches
CaughtTypeErrorOnly(exc) == exc = "TypeError"
ConversionCaught(exc) == exc \in {"TypeError", "ValueError"}

\* (opening - closing) > (0.5 * max_meter), both sides doubled
IsRolloverAtHalf(o, c, m) == 2 * (o - c) >= m
IsRollover(o, c, m) == 2 * (o - c) > m

calc_dispensed(op, cl, mm) ==
    IF op = None \/ cl = None THEN Return(0)
    ELSE LET fo == ToFloat(op)
             fc == ToFloat(cl)
         IN  IF ~fo.ok
             THEN IF ConversionCaught(fo.exc) THEN Return(0) ELSE Raise(fo.exc)
             ELSE IF ~fc.ok
             THEN IF ConversionCaught(fc.exc) THEN Return(0) ELSE Raise(fc.exc)
             ELSE IF fc.v >= fo.v THEN Return(fc.v - fo.v)
             ELSE IF IsRollover(fo.v, fc.v, mm) THEN Return((mm - fo.v) + fc.v)
             ELSE Return(0)

DispStart ==
    /\ opening \in Readings
    /\ closing \in Readings
    /\ max_meter \in MeterMaxes
    /\ dispensed = Pending

DispIdle ==
    /\ opening = None
    /\ closing = None
    /\ max_meter = MaxMeterDefault
    /\ dispensed = Pending

\* One call of calc_dispensed(opening, closing, max_meter).
CalcDispensed ==
    /\ dispensed = Pending
    /\ dispensed' = calc_dispensed(opening, closing, max_meter)
    /\ UNCHANGED <<opening, closing, max_meter>>

(***************************************************************************)
(* Text: a Python str is a sequence of one-character strings; str          *)
(* comparison is lexicographic by code point.                              *)
(***************************************************************************)
DigitChars == <<"0", "1", "2", "3", "4", "5", "6", "7", "8", "9">>
Digits == {DigitChars[i] : i \in 1..Len(DigitChars)}
DigitValue(c) == CHOOSE n \in 0..9 : DigitChars[n + 1] = c
\* the decimal digit of the units of n
DigitOf(n) == DigitChars[(n % 10) + 1]

\* ord(c) for the characters the model uses
Ord(c) ==
    CASE c = " " -> 32
      [] c = "-" -> 45
      [] c = "." -> 46
      [] c \in Digits -> 48 + DigitValue(c)
      [] c = "@" -> 64
      [] OTHER -> 65

\* s < t and s <= t of two str values
StrLess(s, t) ==
    \E i \in 1..(Len(t)) :
        /\ \A j \in 1..(i - 1) : j <= Len(s) /\ s[j] = t[j]
        /\ \/ i = Len(s) + 1
           \/ i <= Len(s) /\ Ord(s[i]) < Ord(t[i])
StrLessEq(s, t) == s = t \/ StrLess(s, t)

(***************************************************************************)
(* Dates: a calendar date is [y, m, d]; the store and the views exchange   *)
(* dates as ISO text 'YYYY-MM-DD'.                                         *)
(***************************************************************************)
Date(y, m, d) == [y |-> y, m |-> m, d |-> d]

\* date.isoformat() / strftime("%Y-%m-%d")
IsoFormat(dt) ==
    << DigitOf(dt.y \div 1000), DigitOf(dt.y \div 100), DigitOf(dt.y \div 10),
       DigitOf(dt.y), "-", DigitOf(dt.m \div 10), DigitOf(dt.m), "-",
       DigitOf(dt.d \div 10), DigitOf(dt.d) >>

(***************************************************************************)
(* get_rate_for_date inside fetch_daily_sales_reports (supabase_utils.py)  *)
(***************************************************************************)
RateNames == {"rate_r22_12", "rate_r23_36"}

\* A row of the fuel_rates table as the lookup reads it.
RateRow(name, start, value) ==
    [rate_name |-> name, start_date |-> IsoFormat(start), value |-> value]

\* rate_lookup[rate_name]: the fetched rates of that name, in fetch order
rate_lookup(rs, name) == SelectSeq(rs, LAMBDA r : r.rate_name = name)

\* r["start_date"] <= report_date_str, a comparison of two str values
StartsAfter(r, date_str) == ~StrLessEq(r.start_date, date_str)
IsCandidate(r, date_str) == StrLessEq(r.start_date, date_str)

\* sorted(candidates, key=start_date, reverse=True)[0]: the sort is stable, so
\* of several candidates with the greatest start_date the first one comes first
FirstOfAscending(cands) ==
    cands[CHOOSE i \in 1..Len(cands) :
            /\ \A j \in 1..Len(cands) : StrLessEq(cands[i].start_date, cands[j].start_date)
            /\ \A j \in 1..(i - 1) : cands[j].start_date # cands[i].start_date]
FirstOfDescending(cands) ==
    cands[CHOOSE i \in 1..Len(cands) :
            /\ \A j \in 1..Len(cands) : StrLessEq(cands[j].start_date, cands[i].start_date)
            /\ \A j \in 1..(i - 1) : cands[j].start_date # cands[i].start_date]

get_rate_for_date(rs, name, date_str) ==
    LET candidates == SelectSeq(rate_lookup(rs, name), LAMBDA r : IsCandidate(r, date_str))
    IN  IF candidates = <<>> THEN 0 ELSE FirstOfDescending(candidates).value

\* Bounds of the lookup's inputs
MaxRates == 3

LookupDates == {Date(2024, 12, 31), Date(2025, 1, 1), Date(2025, 2, 15), Date(2025, 3, 1)}
LookupValues == {20, 22}
LookupRows == {RateRow(n, s, v) : n \in RateNames, s \in LookupDates, v \in LookupValues}
NoRate == 0 - 1

RECURSIVE SeqsUpTo(_, _)
SeqsUpTo(S, n) ==
    IF n = 0 THEN {<<>>}
    ELSE LET shorter == SeqsUpTo(S, n - 1)
         IN  shorter \cup {Append(q, x) : q \in {p \in shorter : Len(p) = n - 1}, x \in S}

LookupStart ==
    /\ rates \in SeqsUpTo(LookupRows, MaxRates)
    /\ rate_name = "rate_r22_12"
    /\ report_date_str \in {IsoFormat(dt) : dt \in LookupDates}
    /\ rate_value = NoRate

LookupIdle ==
    /\ rates = <<>>
    /\ rate_name = "rate_r22_12"
    /\ report_date_str = IsoFormat(Date(2025, 1, 1))
    /\ rate_value = NoRate

\* One call of get_rate_for_date(rate_name, report_date_str) over the rates.
GetRateForDate ==
    /\ rate_value = NoRate
    /\ rate_value' = get_rate_for_date(rates, rate_name, report_date_str)
    /\ UNCHANGED <<rates, rate_name, report_date_str>>

(***************************************************************************)
(* The daily sales report (views.py): save_fuel_rates, fetch_current_rates, *)
(* fetch_daily_sales_reports, daily_sales_report and save_daily_sale over  *)
(* the store's fuel_rates and daily_sales_reports tables.                  *)
(***************************************************************************)
\* Bounds: the days the clock runs over, the rows of fuel_rates and of
\* daily_sales_reports
MaxDay == 3
MaxRateRows == 2
MaxReports == 2

\* Day 1 is 2025-01-30, so the days cross a month boundary.
DateOf(i) == IF i <= 2 THEN Date(2025, 1, 29 + i) ELSE Date(2025, 2, i - 2)
Days == 1..MaxDay
DayStr(i) == IsoFormat(DateOf(i))

\* dict.get(key, default)
DictGet(dict, key, default) == IF key \in DOMAIN dict THEN dict[key] ELSE default

\* The JSON body of a request as a dict: keys may be absent or null (None).
Body(keys, value) == [k \in keys |-> value[k]]

\* supabase.table("fuel_rates").insert(entries): the store fills start_date
\* with the day of the insert and created_at with the time of the insert.
InsertRates(table, entries, day) ==
    table \o [i \in 1..Len(entries) |->
                [rate_name |-> entries[i].rate_name,
                 value |-> entries[i].value,
                 start_date |-> DayStr(day),
                 created_at |-> Len(table) + 1]]

\* save_fuel_rates: one row per rate the body gives
RateEntries(data) ==
    (IF DictGet(data, "rate_r22_12", None) # None
     THEN <<[rate_name |-> "rate_r22_12", value |-> data["rate_r22_12"]]>> ELSE <<>>)
    \o
    (IF DictGet(data, "rate_r23_36", None) # None
     THEN <<[rate_name |-> "rate_r23_36", value |-> data["rate_r23_36"]]>> ELSE <<>>)

\* The bodies tried: one rate, both rates, a null rate, no rate.
RateBodies ==
    { [rate_r22_12 |-> Num(20)], [rate_r22_12 |-> Num(22)],
      [rate_r22_12 |-> None, rate_r23_36 |-> Num(23)],
      Body({}, <<>>) }

Success == [kind |-> "json", success |-> TRUE]
Failure == [kind |-> "json", success |-> FALSE]

save_fuel_rates(data) ==
    LET entries == RateEntries(data)
    IN  /\ Len(fuel_rates) + Len(entries) <= MaxRateRows
        /\ fuel_rates' = IF entries # <<>>
                         THEN InsertRates(fuel_rates, entries, today)
                         ELSE fuel_rates
        /\ response' = Success
        /\ UNCHANGED <<today, daily_sales_reports>>

\* .eq("rate_name", name).order("created_at", desc=True).limit(1)
OldestOf(table, name) ==
    LET mine == SelectSeq(table, LAMBDA r : r.rate_name = name)
    IN  IF mine = <<>> THEN <<>>
        ELSE <<mine[CHOOSE i \in 1..Len(mine) :
                      \A j \in 1..Len(mine) : mine[i].created_at <= mine[j].created_at]>>
LatestCreated(table, name) ==
    LET mine == SelectSeq(table, LAMBDA r : r.rate_name = name)
    IN  IF mine = <<>> THEN <<>>
        ELSE <<mine[CHOOSE i \in 1..Len(mine) :
                      \A j \in 1..Len(mine) : mine[j].created_at <= mine[i].created_at]>>

\* fetch_current_rates(as_of_date=None): as_of_date is not used by the queries
fetch_current_rates(table) ==
    LET response_ulp == LatestCreated(table, "rate_r22_12")
        response_d50 == LatestCreated(table, "rate_r23_36")
    IN  [rate_r22_12 |-> IF response_ulp # <<>>
                         THEN Num(ToFloat(response_ulp[1].value).v) ELSE Num(0),
         rate_r23_36 |-> IF response_d50 # <<>>
                         THEN Num(ToFloat(response_d50[1].value).v) ELSE Num(0)]

\* save_daily_sale: <<column, key of the body, default of data.get>>
PayloadSpec ==
    << <<"report_date", "date", None>>,
       <<"unleaded_95_opening", "ulp_open", Num(0)>>,
       <<"unleaded_95_closing", "ulp_close", Num(0)>>,
       <<"diesel_50_opening", "d50_open", Num(0)>>,
       <<"diesel_50_closing", "d50_close", Num(0)>>,
       <<"actual_pos", "actual_pos", Num(0)>>,
       <<"cash", "cash", Num(0)>>,
       <<"cards", "cards", Num(0)>>,
       <<"expenses", "expenses", Num(0)>>,
       <<"comments", "comments", Txt("")>>,
       <<"rate_ulp_95_used", "rate_ulp_used", Num(0)>>,
       <<"rate_d50_used", "rate_d50_used", Num(0)>>,
       <<"dispensed_ulp_95", "litres_ulp", Num(0)>>,
       <<"dispensed_d50", "litres_d50", Num(0)>>,
       <<"pumped_theoretical", "pumped_theoretical", Num(0)>>,
       <<"variance_pos", "variance_pos", Num(0)>>,
       <<"actual_sales", "actual_sales", Num(0)>>,
       <<"variance_sales", "variance_sales", Num(0)>>,
       <<"grand_total", "grand_total", Num(0)>>,
       <<"over_short", "over_short", Num(0)>> >>

Columns == {PayloadSpec[i][1] : i \in 1..Len(PayloadSpec)}
BodyKeys == {PayloadSpec[i][2] : i \in 1..Len(PayloadSpec)}
SpecOfColumn(c) == PayloadSpec[CHOOSE i \in 1..Len(PayloadSpec) : PayloadSpec[i][1] = c]

\* payload = {...}; payload = {k: v for k, v in payload.items() if v is not None}
BuildPayload(data) ==
    LET full == [c \in Columns |-> DictGet(data, SpecOfColumn(c)[2], SpecOfColumn(c)[3])]
    IN  [c \in {k \in Columns : full[k] # None} |-> full[c]]

\* A column the inserted row does not give is NULL in the new row.
ColumnDefault(c) == None

\* .upsert(payload, on_conflict="report_date"): the row of that date takes the
\* payload's columns and keeps its other columns; a new row is inserted
\* when there is none.
Upsert(table, payload) ==
    LET key == payload["report_date"]
        old == {r \in table : r["report_date"] = key}
        new == IF old = {}
               THEN [c \in Columns |-> DictGet(payload, c, ColumnDefault(c))]
               ELSE LET o == CHOOSE r \in old : TRUE
                    IN  [c \in Columns |-> DictGet(payload, c, o[c])]
    IN  (table \ old) \cup {new}

\* The bodies tried: every key given, the rates and takings varying; one with
\* the rate keys absent; one with null comments and takings; one with no date;
\* one with a closing reading of 3 and the litres left at 0.
FullBody(day, rate, cash) ==
    [k \in BodyKeys |->
        CASE k = "date" -> Txt(DayStr(day))
          [] k = "comments" -> Txt("ok")
          [] k \in {"rate_ulp_used", "rate_d50_used"} -> Num(rate)
          [] k \in {"cash", "actual_sales", "grand_total"} -> Num(cash)
          [] OTHER -> Num(0)]
SaleBodies ==
    {FullBody(day, rate, 5) : day \in Days, rate \in {20, 22}}
      \cup {Body(BodyKeys \ {"rate_ulp_used", "rate_d50_used", "cash"}, FullBody(1, 20, 5))}
      \cup {[FullBody(1, 20, 5) EXCEPT !["comments"] = None, !["cash"] = None]}
      \cup {Body(BodyKeys \ {"date"}, FullBody(1, 20, 5))}
      \cup {[FullBody(MaxDay, 20, 5) EXCEPT !["ulp_close"] = Num(3)]}

\* save_daily_sale: a body without a date has no conflict key; the store
\* rejects it and the handler answers with the error.
save_daily_sale(data) ==
    LET payload == BuildPayload(data)
    IN  /\ IF "report_date" \in DOMAIN payload
           THEN /\ Cardinality(Upsert(daily_sales_reports, payload)) <= MaxReports
                /\ daily_sales_reports' = Upsert(daily_sales_reports, payload)
                /\ response' = Success
           ELSE /\ daily_sales_reports' = daily_sales_reports
                /\ response' = Failure
        /\ UNCHANGED <<today, fuel_rates>>

\* A sequence of the elements of a set of rows, ascending by a text column.
RECURSIVE OrderBy(_, _)
OrderBy(rows, col) ==
    IF rows = {} THEN <<>>
    ELSE LET first == CHOOSE r \in rows : \A q \in rows : StrLessEq(r[col].s, q[col].s)
         IN  <<first>> \o OrderBy(rows \ {first}, col)

\* fetch_daily_sales_reports(from_date, to_date): the reports of the range in
\* date order, each with the rate of its date by get_rate_for_date added.
fetch_daily_sales_reports(from_date, to_date) ==
    LET reports == OrderBy({r \in daily_sales_reports :
                               /\ StrLessEq(from_date, r["report_date"].s)
                               /\ StrLessEq(r["report_date"].s, to_date)}, "report_date")
        fetched == SelectSeq(fuel_rates, LAMBDA r : StrLessEq(r.start_date, to_date))
    IN  [i \in 1..Len(reports) |->
            [c \in Columns \cup RateNames |->
                IF c \in Columns THEN reports[i][c]
                ELSE get_rate_for_date(fetched, c, reports[i]["report_date"].s)]]

\* daily_sales_report: <<key of the row shown, column of the saved record,
\* default of rec.get>>; the two rate keys default to the current rates.
RowSpec ==
    << <<"date", "report_date", None>>,
       <<"ulp_open", "unleaded_95_opening", Num(0)>>,
       <<"ulp_close", "unleaded_95_closing", Num(0)>>,
       <<"d50_open", "diesel_50_opening", Num(0)>>,
       <<"d50_close", "diesel_50_closing", Num(0)>>,
       <<"actual_pos", "actual_pos", Num(0)>>,
       <<"cash", "cash", Num(0)>>,
       <<"cards", "cards", Num(0)>>,
       <<"expenses", "expenses", Num(0)>>,
       <<"comments", "comments", Txt("")>>,
       <<"litres_ulp", "dispensed_ulp_95", Num(0)>>,
       <<"litres_d50", "dispensed_d50", Num(0)>>,
       <<"r_ulp", "r_ulp", Num(0)>>,
       <<"r_d50", "r_d50", Num(0)>>,
       <<"pumped_theoretical", "pumped_theoretical", Num(0)>>,
       <<"variance_pos", "variance_pos", Num(0)>>,
       <<"actual_sales", "actual_sales", Num(0)>>,
       <<"variance_sales", "variance_sales", Num(0)>>,
       <<"grand_total", "grand_total", Num(0)>>,
       <<"over_short", "over_short", Num(0)>> >>
RowKeys == {RowSpec[i][1] : i \in 1..Len(RowSpec)} \cup {"rate_ulp_used", "rate_d50_used"}
SpecOfRowKey(k) == RowSpec[CHOOSE i \in 1..Len(RowSpec) : RowSpec[i][1] = k]

SavedRow(rec, current_rates) ==
    [k \in RowKeys |->
        CASE k = "rate_ulp_used" -> DictGet(rec, "rate_ulp_95_used", current_rates.rate_r22_12)
          [] k = "rate_d50_used" -> DictGet(rec, "rate_d50_used", current_rates.rate_r23_36)
          [] OTHER -> DictGet(rec, SpecOfRowKey(k)[2], SpecOfRowKey(k)[3])]

UnsavedRow(date_str, current_rates) ==
    [k \in RowKeys |->
        CASE k = "rate_ulp_used" -> current_rates.rate_r22_12
          [] k = "rate_d50_used" -> current_rates.rate_r23_36
          [] k = "date" -> Txt(date_str)
          [] k = "comments" -> Txt("")
          [] OTHER -> Num(0)]

\* The rows daily_sales_report shows for GET parameters "from" and "to" (a
\* day, or None when the parameter is absent).
DailySalesRows(from, to) ==
    LET from_day == IF from # None THEN from.v ELSE today
        to_day == IF to # None THEN to.v ELSE from_day
        current_rates == fetch_current_rates(fuel_rates)
        saved == fetch_daily_sales_reports(DayStr(from_day), DayStr(to_day))
        count == IF to_day >= from_day THEN to_day - from_day + 1 ELSE 0
    IN  [i \in 1..count |->
            LET date_str == DayStr(from_day + i - 1)
                found == {j \in 1..Len(saved) : saved[j]["report_date"].s = date_str}
            IN  IF found # {}
                THEN SavedRow(saved[CHOOSE j \in found : \A q \in found : q <= j],
                              current_rates)
                ELSE UnsavedRow(date_str, current_rates)]

\* The ranges tried: no parameters, one day, all days, an empty range.
ReportRanges ==
    { <<None, None>>, <<Num(1), None>>, <<Num(1), Num(MaxDay)>>, <<Num(MaxDay), Num(1)>> }

daily_sales_report(from, to) ==
    /\ response' = [kind |-> "report", daily_sales |-> DailySalesRows(from, to),
                    current_rates |-> fetch_current_rates(fuel_rates)]
    /\ UNCHANGED <<today, fuel_rates, daily_sales_reports>>

\* The clock: the next day begins.
NextDay ==
    /\ today < MaxDay
    /\ today' = today + 1
    /\ UNCHANGED <<fuel_rates, daily_sales_reports, response>>

NoResponse == [kind |-> "none"]

ReportStart ==
    /\ today = 1
    /\ fuel_rates = <<>>
    /\ daily_sales_reports = {}
    /\ response = NoResponse

ReportIdle == ReportStart

SaveFuelRates == \E data \in RateBodies : save_fuel_rates(data)
SaveDailySale == \E data \in SaleBodies : save_daily_sale(data)
DailySalesReport == \E range \in ReportRanges : daily_sales_report(range[1], range[2])

(***************************************************************************)
(* normalize_item_rows (views.py): the receipt line parser                 *)
(***************************************************************************)
SpaceChars == {" "}
NumChars == Digits \cup {"."}

\* The length of the longest run of characters of class C that starts at
\* position i of s, and of the longest run that ends at position i.
RunFrom(s, i, C) ==
    LET fits == {0} \cup {k \in 1..(Len(s) - i + 1) : \A j \in i..(i + k - 1) : s[j] \in C}
    IN  CHOOSE k \in fits : \A q \in fits : q <= k
RunBack(s, i, C) ==
    LET fits == {0} \cup {k \in 1..i : \A j \in (i - k + 1)..i : s[j] \in C}
    IN  CHOOSE k \in fits : \A q \in fits : q <= k

\* str.strip()
Strip(s) ==
    LET lead == RunFrom(s, 1, SpaceChars)
        trail == RunBack(s, Len(s), SpaceChars)
    IN  IF lead = Len(s) THEN <<>> ELSE SubSeq(s, lead + 1, Len(s) - trail)

\* str.upper() of ASCII text
LowerChars ==
    <<"a", "b", "c", "d", "e", "f", "g", "h", "i", "j", "k", "l", "m", "n", "o", "p", "q", "r", "s", "t", "u", "v", "w", "x", "y", "z">>
UpperChars ==
    <<"A", "B", "C", "D", "E", "F", "G", "H", "I", "J", "K", "L", "M", "N", "O", "P", "Q", "R", "S", "T", "U", "V", "W", "X", "Y", "Z">>
UpperChar(c) ==
    IF \E i \in 1..Len(LowerChars) : LowerChars[i] = c
    THEN UpperChars[CHOOSE i \in 1..Len(LowerChars) : LowerChars[i] = c]
    ELSE c
Upper(s) == [i \in 1..Len(s) |-> UpperChar(s[i])]

\* str.startswith(prefix)
StartsWith(s, prefix) ==
    Len(s) >= Len(prefix) /\ SubSeq(s, 1, Len(prefix)) = prefix

\* str.split()[-1]: the last token between runs of whitespace
LastToken(s) ==
    LET t == Strip(s)
    IN  SubSeq(t, Len(t) - RunBack(t, Len(t), {t[j] : j \in 1..Len(t)} \ SpaceChars) + 1, Len(t))

\* (row.get(key) or ""): None and the empty text give ""
OrEmpty(x) == IF x = None THEN <<>> ELSE x.s

\* The value of a run of decimal digits.
RECURSIVE DecimalValue(_)
DecimalValue(ds) ==
    IF ds = <<>> THEN 0
    ELSE 10 * DecimalValue(SubSeq(ds, 1, Len(ds) - 1)) + DigitValue(ds[Len(ds)])

\* float(text) of a text of digits and dots: a number when the text has a
\* digit and at most one dot, else ValueError.  Amounts are held in
\* hundredths: "15.00" is 1500.
IsFloatText(s) ==
    /\ s # <<>>
    /\ \A i \in 1..Len(s) : s[i] \in NumChars
    /\ \E i \in 1..Len(s) : s[i] \in Digits
    /\ Cardinality({i \in 1..Len(s) : s[i] = "."}) <= 1
FloatOfText(s) ==
    LET whole == RunFrom(s, 1, Digits)
        frac == SubSeq(s, whole + 2, Len(s)) \o <<"0", "0">>
    IN  DecimalValue(SubSeq(s, 1, whole)) * 100 + DecimalValue(SubSeq(frac, 1, 2))

\* qty * unit_price of two amounts in hundredths
Times(a, b) == (a * b) \div 100

\* QTY_PRICE_PATTERN.match(s), the pattern being
\*   (\d+(\.\d+)?)\s*@\s*([\d.]+)\s*([\d.]*)
\* anchored at the start of s; the groups 1, 3 and 4 of a match.
QtyPriceMatch(s) ==
    LET d1 == RunFrom(s, 1, Digits)
        f1 == IF d1 + 1 <= Len(s) /\ s[d1 + 1] = "." THEN RunFrom(s, d1 + 2, Digits) ELSE 0
        e1 == IF f1 >= 1 THEN d1 + 1 + f1 ELSE d1
        at == e1 + RunFrom(s, e1 + 1, SpaceChars) + 1
        b == at + RunFrom(s, at + 1, SpaceChars)
        n3 == RunFrom(s, b + 1, NumChars)
        c == b + n3 + RunFrom(s, b + n3 + 1, SpaceChars)
        n4 == RunFrom(s, c + 1, NumChars)
    IN  IF d1 >= 1 /\ at <= Len(s) /\ s[at] = "@" /\ n3 >= 1
        THEN [ok |-> TRUE, g1 |-> SubSeq(s, 1, e1), g3 |-> SubSeq(s, b + 1, b + n3),
              g4 |-> SubSeq(s, c + 1, c + n4)]
        ELSE [ok |-> FALSE]

\* DESCRIPTION_PRICE_PATTERN.match(s), the pattern being (.+?)\s+(\d+\.\d{2})$
\* the groups 1 and 2 of a match.
DescriptionPriceMatch(s) ==
    LET n == Len(s)
        digs == RunBack(s, n - 3, Digits)
        gap == RunBack(s, n - 3 - digs, SpaceChars)
        rest == n - 3 - digs - gap
    IN  IF /\ n >= 6
           /\ s[n - 2] = "." /\ s[n - 1] \in Digits /\ s[n] \in Digits
           /\ digs >= 1 /\ gap >= 1 /\ rest >= 1
        THEN [ok |-> TRUE, g1 |-> SubSeq(s, 1, rest), g2 |-> SubSeq(s, n - 2 - digs, n)]
        ELSE [ok |-> FALSE]

\* An entry of the result: (name, qty, unit_price, total_price, barcode)
Entry(name, qty, unit_price, total_price, barcode) ==
    [name |-> name, qty |-> qty, unit_price |-> unit_price,
     total_price |-> total_price, barcode |-> barcode]

\* The floats of a matched qty/price line convert: group 1 always does.
QtyPriceConverts(m) == IsFloatText(m.g3) /\ (m.g4 = <<>> \/ IsFloatText(m.g4))
QtyOf(m) == FloatOfText(m.g1)
UnitPriceOf(m) == FloatOfText(m.g3)
TotalPriceOf(m) == IF m.g4 # <<>> THEN FloatOfText(m.g4) ELSE Times(QtyOf(m), UnitPriceOf(m))

\* The locals of one pass of the loop
Row == group_rows[index + 1]
Details == Strip(OrEmpty(Row.details))
Code == OrEmpty(Row.code)
NextDetails == Strip(OrEmpty(group_rows[index + 2].details))

\* next((r for r in group_rows if ...upper().startswith("ITEMS 1 TOTAL")), None)
ItemsTotalPrefix == <<"I", "T", "E", "M", "S", " ", "1", " ", "T", "O", "T", "A", "L">>
IsItemsTotalRow(r) == StartsWith(Upper(OrEmpty(r.details)), ItemsTotalPrefix)
HasItems1 == \E i \in 1..Len(group_rows) : IsItemsTotalRow(group_rows[i])
\* a variant that takes the last such row of the group
Items1Last ==
    group_rows[CHOOSE i \in 1..Len(group_rows) :
                  /\ IsItemsTotalRow(group_rows[i])
                  /\ \A j \in (i + 1)..Len(group_rows) : ~IsItemsTotalRow(group_rows[j])]
Items1 ==
    group_rows[CHOOSE i \in 1..Len(group_rows) :
                  /\ IsItemsTotalRow(group_rows[i])
                  /\ \A j \in 1..(i - 1) : ~IsItemsTotalRow(group_rows[j])]
\* float(items1.get("details").split()[-1]) converts
ItemsTotalConverts == HasItems1 /\ IsFloatText(LastToken(Items1.details.s))
ItemsTotalVal == FloatOfText(LastToken(Items1.details.s))

InLoop == parse_pc = "loop" /\ index < Len(group_rows)
LookAheadMatches ==
    index + 1 < Len(group_rows) /\ QtyPriceMatch(NextDetails).ok

\* accounted with row i (1-based) having produced an entry, and row j (0 for
\* none) merged into that entry
Account(i, j) ==
    [k \in 1..Len(group_rows) |->
        [emitted |-> accounted[k].emitted + (IF k = i THEN 1 ELSE 0),
         merged |-> accounted[k].merged + (IF k = j THEN 1 ELSE 0)]]

\* if not details: index += 1; continue
SkipEmptyRow ==
    /\ InLoop
    /\ Details = <<>>
    /\ index' = index + 1
    /\ UNCHANGED <<group_rows, normalized, parse_pc, accounted>>

\* 1. the line is a qty/price line; the name comes from the previous row when
\* that row has text that is not a qty/price line
QtyPriceLine ==
    /\ InLoop
    /\ Details # <<>>
    /\ QtyPriceMatch(Details).ok
    /\ QtyPriceConverts(QtyPriceMatch(Details))
    /\ LET m == QtyPriceMatch(Details)
           pdet == IF index > 0 THEN Strip(OrEmpty(group_rows[index].details)) ELSE <<>>
           pcode == IF index > 0 THEN OrEmpty(group_rows[index].code) ELSE <<>>
           lookback == index > 0 /\ pdet # <<>> /\ ~QtyPriceMatch(pdet).ok
           name == IF lookback THEN pdet ELSE Details
           barcode == IF lookback THEN (IF pcode # <<>> THEN pcode ELSE Code) ELSE Code
       IN  /\ normalized' = Append(normalized,
                                   Entry(name, QtyOf(m), UnitPriceOf(m), TotalPriceOf(m), barcode))
           /\ accounted' = Account(index + 1, IF lookback THEN index ELSE 0)
    /\ index' = index + 1
    /\ UNCHANGED <<group_rows, parse_pc>>

\* float(match.group(3)) or float(match.group(4)) raises ValueError, which
\* nothing in normalize_item_rows catches
QtyPriceLineRaises ==
    /\ InLoop
    /\ Details # <<>>
    /\ QtyPriceMatch(Details).ok
    /\ ~QtyPriceConverts(QtyPriceMatch(Details))
    /\ parse_pc' = "raised"
    /\ UNCHANGED <<group_rows, index, normalized, accounted>>

\* 2. the next line is a qty/price line: one entry for both, index += 2
LookAheadLine ==
    /\ InLoop
    /\ Details # <<>>
    /\ ~QtyPriceMatch(Details).ok
    /\ LookAheadMatches
    /\ QtyPriceConverts(QtyPriceMatch(NextDetails))
    /\ LET m == QtyPriceMatch(NextDetails)
       IN  normalized' = Append(normalized,
                                Entry(Details, QtyOf(m), UnitPriceOf(m), TotalPriceOf(m), Code))
    /\ accounted' = Account(index + 1, index + 2)
    /\ index' = index + 2
    /\ UNCHANGED <<group_rows, parse_pc>>

LookAheadLineRaises ==
    /\ InLoop
    /\ Details # <<>>
    /\ ~QtyPriceMatch(Details).ok
    /\ LookAheadMatches
    /\ ~QtyPriceConverts(QtyPriceMatch(NextDetails))
    /\ parse_pc' = "raised"
    /\ UNCHANGED <<group_rows, index, normalized, accounted>>

\* 3. a row of the group starts with "ITEMS 1 TOTAL" and its last token is a
\* number: that number is the unit price and the total
ItemsTotalLine ==
    /\ InLoop
    /\ Details # <<>>
    /\ ~QtyPriceMatch(Details).ok
    /\ ~LookAheadMatches
    /\ ItemsTotalConverts
    /\ normalized' = Append(normalized, Entry(Details, 100, ItemsTotalVal, ItemsTotalVal, Code))
    /\ accounted' = Account(index + 1, 0)
    /\ index' = index + 1
    /\ UNCHANGED <<group_rows, parse_pc>>

\* 4. the line is a description that ends with a price
DescriptionPriceLine ==
    /\ InLoop
    /\ Details # <<>>
    /\ ~QtyPriceMatch(Details).ok
    /\ ~LookAheadMatches
    /\ ~ItemsTotalConverts
    /\ DescriptionPriceMatch(Details).ok
    /\ LET pm == DescriptionPriceMatch(Details)
       IN  normalized' = Append(normalized,
                                Entry(pm.g1, 100, FloatOfText(pm.g2), FloatOfText(pm.g2), Code))
    /\ accounted' = Account(index + 1, 0)
    /\ index' = index + 1
    /\ UNCHANGED <<group_rows, parse_pc>>

\* Fallback
FallbackLine ==
    /\ InLoop
    /\ Details # <<>>
    /\ ~QtyPriceMatch(Details).ok
    /\ ~LookAheadMatches
    /\ ~ItemsTotalConverts
    /\ ~DescriptionPriceMatch(Details).ok
    /\ normalized' = Append(normalized, Entry(Details, 100, 0, 0, Code))
    /\ accounted' = Account(index + 1, 0)
    /\ index' = index + 1
    /\ UNCHANGED <<group_rows, parse_pc>>

\* return normalized
ReturnNormalized ==
    /\ parse_pc = "loop"
    /\ index >= Len(group_rows)
    /\ parse_pc' = "returned"
    /\ UNCHANGED <<group_rows, index, normalized, accounted>>

\* Bound: the rows of a group
MaxRows == 3

ItemRow(details, code) == [details |-> details, code |-> code]
\* 'BREAD'
Sample1 == ItemRow(Txt(<<"B", "R", "E", "A", "D">>), Txt(<<"B", "1">>))
\* '1 @ 15.00 15.00'
Sample2 == ItemRow(Txt(<<"1", " ", "@", " ", "1", "5", ".", "0", "0", " ", "1", "5", ".", "0", "0">>), None)
\* '2 @ 3.50'
Sample3 == ItemRow(Txt(<<"2", " ", "@", " ", "3", ".", "5", "0">>), Txt(<<"Q", "2">>))
\* '1 @ .'
Sample4 == ItemRow(Txt(<<"1", " ", "@", " ", ".">>), None)
\* '1 @ 1.2.3'
Sample5 == ItemRow(Txt(<<"1", " ", "@", " ", "1", ".", "2", ".", "3">>), Txt(<<"Q", "4">>))
\* no details
Sample6 == ItemRow(None, None)
\* '  '
Sample7 == ItemRow(Txt(<<" ", " ">>), Txt(<<"B", "2">>))
\* 'MILK 12.50'
Sample8 == ItemRow(Txt(<<"M", "I", "L", "K", " ", "1", "2", ".", "5", "0">>), Txt(<<"M", "1">>))
\* 'ITEMS 1 TOTAL 15.00'
Sample9 == ItemRow(Txt(<<"I", "T", "E", "M", "S", " ", "1", " ", "T", "O", "T", "A", "L", " ", "1", "5", ".", "0", "0">>), None)
\* 'Items 1 total'
Sample10 == ItemRow(Txt(<<"I", "t", "e", "m", "s", " ", "1", " ", "t", "o", "t", "a", "l">>), None)
\* ' TEA '
Sample11 == ItemRow(Txt(<<" ", "T", "E", "A", " ">>), Txt(<<>>))
SampleRows ==
    {Sample1, Sample2, Sample3, Sample4, Sample5, Sample6, Sample7, Sample8, Sample9, Sample10, Sample11}

ParseStart ==
    /\ group_rows \in SeqsUpTo(SampleRows, MaxRows)
    /\ index = 0
    /\ normalized = <<>>
    /\ parse_pc = "loop"
    /\ accounted = [k \in 1..Len(group_rows) |-> [emitted |-> 0, merged |-> 0]]

ParseIdle ==
    /\ group_rows = <<>>
    /\ index = 0
    /\ normalized = <<>>
    /\ parse_pc = "idle"
    /\ accounted = <<>>

(***************************************************************************)
(* The dashboards: refresh_dashboard_cache (tasks.py) and admin_dashboard  *)
(* (views.py).  Amounts are held in thousandths: 15.00 is 15000.           *)
(***************************************************************************)

\* --- datetime.date ------------------------------------------------------
IsLeap(y) == (y % 4 = 0 /\ y % 100 # 0) \/ y % 400 = 0
\* calendar.monthrange(y, m)[1]
DaysInMonth(y, m) ==
    CASE m = 2 -> IF IsLeap(y) THEN 29 ELSE 28
      [] m \in {4, 6, 9, 11} -> 30
      [] OTHER -> 31
RECURSIVE DaysBeforeMonth(_, _)
DaysBeforeMonth(y, m) ==
    IF m = 1 THEN 0 ELSE DaysBeforeMonth(y, m - 1) + DaysInMonth(y, m - 1)
\* date.toordinal(): 0001-01-01 is day 1
ToOrdinal(dt) ==
    LET py == dt.y - 1
    IN  py * 365 + (py \div 4) - (py \div 100) + (py \div 400)
          + DaysBeforeMonth(dt.y, dt.m) + dt.d
\* date + timedelta(days=1) and date - timedelta(days=1)
Tomorrow(dt) ==
    IF dt.d < DaysInMonth(dt.y, dt.m) THEN Date(dt.y, dt.m, dt.d + 1)
    ELSE IF dt.m < 12 THEN Date(dt.y, dt.m + 1, 1)
    ELSE Date(dt.y + 1, 1, 1)
Yesterday(dt) ==
    IF dt.d > 1 THEN Date(dt.y, dt.m, dt.d - 1)
    ELSE IF dt.m > 1 THEN Date(dt.y, dt.m - 1, DaysInMonth(dt.y, dt.m - 1))
    ELSE Date(dt.y - 1, 12, 31)
\* date + timedelta(days=k)
RECURSIVE PlusDays(_, _)
PlusDays(dt, k) ==
    IF k = 0 THEN dt
    ELSE IF k > 0 THEN PlusDays(Tomorrow(dt), k - 1)
    ELSE PlusDays(Yesterday(dt), k + 1)
\* date.weekday(): Monday is 0
Weekday(dt) == (ToOrdinal(dt) + 6) % 7
\* date.replace(day=d)
ReplaceDay(dt, d) == Date(dt.y, dt.m, d)
\* a <= dt <= b
DateBetween(a, dt, b) == ToOrdinal(a) <= ToOrdinal(dt) /\ ToOrdinal(dt) <= ToOrdinal(b)

\* datetime.strptime(text, "%Y-%m-%d").date() and date.fromisoformat(text),
\* for text of digits and dashes: the date, or ValueError.  strptime also
\* takes a month or a day of one digit; fromisoformat takes only YYYY-MM-DD.
DateFields(str) ==
    LET ylen == RunFrom(str, 1, Digits)
        mlen == RunFrom(str, ylen + 2, Digits)
        dlen == RunFrom(str, ylen + mlen + 3, Digits)
    IN  [ylen |-> ylen, mlen |-> mlen, dlen |-> dlen,
         shaped |-> /\ ylen = 4 /\ mlen \in 1..2 /\ dlen \in 1..2
                    /\ Len(str) = ylen + mlen + dlen + 2
                    /\ str[ylen + 1] = "-" /\ str[ylen + mlen + 2] = "-",
         y |-> DecimalValue(SubSeq(str, 1, ylen)),
         m |-> DecimalValue(SubSeq(str, ylen + 2, ylen + mlen + 1)),
         d |-> DecimalValue(SubSeq(str, ylen + mlen + 3, ylen + mlen + dlen + 2))]
IsDateText(str) ==
    LET f == DateFields(str)
    IN  f.shaped /\ f.y >= 1 /\ f.m \in 1..12 /\ f.d \in 1..DaysInMonth(f.y, f.m)
DateOfText(str) == LET f == DateFields(str) IN Date(f.y, f.m, f.d)
StrpTime(x) ==
    CASE x.t # "str" -> [ok |-> FALSE, exc |-> "TypeError"]
      [] x.t = "str" /\ ~IsDateText(x.s) -> [ok |-> FALSE, exc |-> "ValueError"]
      [] OTHER -> [ok |-> TRUE, v |-> DateOfText(x.s)]
FromIsoFormat(x) ==
    CASE x.t # "str" -> [ok |-> FALSE, exc |-> "TypeError"]
      [] x.t = "str" /\ ~(IsDateText(x.s) /\ Len(x.s) = 10) -> [ok |-> FALSE, exc |-> "ValueError"]
      [] OTHER -> [ok |-> TRUE, v |-> DateOfText(x.s)]

\* --- text ---------------------------------------------------------------
\* str.lower() of ASCII text
LowerChar(c) ==
    IF \E i \in 1..Len(UpperChars) : UpperChars[i] = c
    THEN LowerChars[CHOOSE i \in 1..Len(UpperChars) : UpperChars[i] = c]
    ELSE c
Lower(s) == [i \in 1..Len(s) |-> LowerChar(s[i])]

\* sub in s
Contains(s, sub) ==
    \E i \in 1..(Len(s) - Len(sub) + 1) : SubSeq(s, i, i + Len(sub) - 1) = sub

\* re.findall(r"\d+\.?\d*", s): the numbers of s from position i on, left to
\* right and without overlap; re.search gives the first of them.
RECURSIVE FindAllNumbers(_, _)
FindAllNumbers(s, i) ==
    IF i > Len(s) THEN <<>>
    ELSE IF s[i] \notin Digits THEN FindAllNumbers(s, i + 1)
    ELSE LET whole == RunFrom(s, i, Digits)
             dot == IF i + whole <= Len(s) /\ s[i + whole] = "." THEN 1 ELSE 0
             frac == IF dot = 1 THEN RunFrom(s, i + whole + 1, Digits) ELSE 0
             stop == i + whole + dot + frac
         IN  <<SubSeq(s, i, stop - 1)>> \o FindAllNumbers(s, stop)

\* float(token) of a token of \d+\.?\d*, in thousandths
FloatOfNumber(token) ==
    LET whole == RunFrom(token, 1, Digits)
        frac == SubSeq(token, whole + 2, Len(token)) \o <<"0", "0", "0">>
    IN  DecimalValue(SubSeq(token, 1, whole)) * 1000 + DecimalValue(SubSeq(frac, 1, 3))

\* round(x, 2) of an amount in thousandths: the nearest hundredth, a tie
\* going to the even hundredth
Round2(x) ==
    LET low == (x \div 10) * 10
        rest == x - low
    IN  CASE rest < 5 -> low
          [] rest > 5 -> low + 10
          [] OTHER -> IF (low \div 10) % 2 = 0 THEN low ELSE low + 10

\* (x or default)
Falsy(x) ==
    \/ x = None
    \/ x.t = "num" /\ x.v = 0
    \/ x.t = "str" /\ x.s = <<>>
Or(x, default) == IF Falsy(x) THEN default ELSE x

\* --- the store ----------------------------------------------------------
\* .gte(col, a).lte(col, b) on a table: the rows whose column is a text
\* between the bounds (a null column passes no filter); None for no bound
InRange(rows, col, a, b) ==
    SelectSeq(rows, LAMBDA r :
        /\ r[col] # None
        /\ a # None => StrLessEq(a, r[col].s)
        /\ b # None => StrLessEq(r[col].s, b))

\* .order(datecol).order(timecol): ascending by date, then time
RECURSIVE OrderRows(_, _, _)
OrderRows(rows, datecol, timecol) ==
    IF rows = <<>> THEN <<>>
    ELSE LET key(i) == rows[i][datecol].s \o rows[i][timecol].s
             first == CHOOSE i \in 1..Len(rows) :
                         \A j \in 1..Len(rows) :
                            /\ StrLessEq(key(i), key(j))
                            /\ key(i) = key(j) => i <= j
         IN  <<rows[first]>> \o
             OrderRows(SubSeq(rows, 1, first - 1) \o SubSeq(rows, first + 1, Len(rows)),
                       datecol, timecol)
Reverse(q) == [i \in 1..Len(q) |-> q[Len(q) + 1 - i]]

fetch_eod_data(from_date, to_date) ==
    OrderRows(InRange(tbl_eod_data, "s_date", from_date, to_date), "s_date", "s_time")
fetch_pos2_stock_data(from_date, to_date) ==
    Reverse(OrderRows(InRange(tbl_pos2_stock_data, "trandate", from_date, to_date),
                      "trandate", "trantime"))
fetch_pos3_stock_data(from_date, to_date) ==
    Reverse(OrderRows(InRange(tbl_pos3_stock_data, "trandate", from_date, to_date),
                      "trandate", "trantime"))
fetch_posaud_sales(from_date) ==
    Reverse(OrderRows(InRange(tbl_posaud, "trandate", from_date, None), "trandate", "trantime"))

\* --- refresh_dashboard_cache: dates and fetches -------------------------
week_start == PlusDays(dash_today, 0 - Weekday(dash_today))
week_end == PlusDays(week_start, 6)
month_start == ReplaceDay(dash_today, 1)
next_month == PlusDays(ReplaceDay(month_start, 28), 4)
month_end == PlusDays(next_month, 0 - next_month.d)

all_pos == pos2_data \o pos3_data

NoTotals ==
    [daily |-> 0, weekly |-> 0, monthly |-> 0, fuel |-> 0, diesel |-> 0, unleaded |-> 0,
     nonfuel |-> 0, revenue |-> 0, returns |-> 0, transactions |-> 0]

TAGID_ATTENDANT_MAP ==
    << <<<<"9", "4", "C", "B", "A", "1">>, "Molapo">>, <<<<"5", "6", "B", "D", "E", "F">>, "Jose">>,
       <<<<"C", "7", "D", "F", "A", "1">>, "Sibu">>, <<<<"6", "D", "C", "2", "9", "F">>, "Mathebe">> >>
\* TAGID_ATTENDANT_MAP.get(tagid, "Unknown")
AttendantOf(tagid) ==
    IF \E i \in 1..Len(TAGID_ATTENDANT_MAP) : TAGID_ATTENDANT_MAP[i][1] = tagid
    THEN TAGID_ATTENDANT_MAP[CHOOSE i \in 1..Len(TAGID_ATTENDANT_MAP) :
                                TAGID_ATTENDANT_MAP[i][1] = tagid][2]
    ELSE "Unknown"

\* the day, week and month totals of an amount dated s_date
AddToWindows(t, s_date, amount) ==
    [t EXCEPT
        !.daily = @ + (IF s_date = dash_today THEN amount ELSE 0),
        !.weekly = @ + (IF DateBetween(week_start, s_date, week_end) THEN amount ELSE 0),
        !.monthly = @ + (IF DateBetween(month_start, s_date, month_end) THEN amount ELSE 0)]

\* daily_trends[key] = daily_trends.get(key, 0) + amount
AddToTrend(trends, key, amount) ==
    [k \in DOMAIN trends \cup {key} |->
        (IF k \in DOMAIN trends THEN trends[k] ELSE 0) + (IF k = key THEN amount ELSE 0)]

\* staff_perf.setdefault(attendant, {...}), then sales += amount, transactions += 1
AddToStaff(perf, attendant, amount) ==
    [a \in DOMAIN perf \cup {attendant} |->
        LET was == IF a \in DOMAIN perf THEN perf[a] ELSE [sales |-> 0, transactions |-> 0]
        IN  IF a = attendant
            THEN [sales |-> was.sales + amount, transactions |-> was.transactions + 1]
            ELSE was]

\* --- refresh_dashboard_cache: one fuel row of the EOD loop --------------
\* The row is left at the first statement that raises (except: continue):
\* before the totals when the date, the amount or the grade cannot be read,
\* after the totals and before the staff and trend figures when the tag id
\* is not text.
EodReadable(row) ==
    /\ StrpTime(row.s_date).ok
    /\ ToFloat(row.total).ok
    /\ Or(row.gradeid, Txt(<<>>)).t = "str"
EodTotals(t, row) ==
    IF ~EodReadable(row) THEN t
    ELSE LET s_date == StrpTime(row.s_date).v
             amount == ToFloat(row.total).v
             gradeid == Strip(Or(row.gradeid, Txt(<<>>)).s)
             counted == [t EXCEPT !.fuel = @ + amount,
                                  !.revenue = @ + amount,
                                  !.transactions = @ + 1,
                                  !.unleaded = @ + (IF gradeid = <<"0", "1">> THEN amount ELSE 0),
                                  !.diesel = @ + (IF gradeid = <<"0", "2">> THEN amount ELSE 0)]
         IN  AddToWindows(counted, s_date, amount)
EodAttributed(row) == EodReadable(row) /\ Or(row.tagid, Txt(<<>>)).t = "str"
EodAttendant(row) == AttendantOf(Upper(Or(row.tagid, Txt(<<>>)).s))

\* --- refresh_dashboard_cache: one row of the POS2/POS3 loop --------------
\* float(nums[-1]) if nums else 0
LastNumberOrZero(text) ==
    LET nums == FindAllNumbers(text, 1)
    IN  IF nums = <<>> THEN 0 ELSE FloatOfNumber(nums[Len(nums)])
\* a variant that looks for the marker in capitals only
IsVoidInCapitals(text) == Contains(text, <<"V", "O", "I", "D">>)
\* "VOID" in details.upper()
IsVoid(text) == Contains(Upper(text), <<"V", "O", "I", "D">>)
\* the row is counted: it has a date that parses and is not a void
PosCounted(row) ==
    /\ ~Falsy(row.trandate)
    /\ StrpTime(row.trandate).ok
    /\ ~IsVoid(Strip(OrEmpty(row.details)))
PosAmount(row) == LastNumberOrZero(Strip(OrEmpty(row.details)))
PosTotals(t, row) ==
    IF ~PosCounted(row) THEN t
    ELSE LET amount == PosAmount(row)
             counted == [t EXCEPT !.nonfuel = @ + amount,
                                  !.revenue = @ + amount,
                                  !.transactions = @ + 1]
         IN  AddToWindows(counted, StrpTime(row.trandate).v, amount)

\* --- refresh_dashboard_cache: one row of the returns loop ---------------
IsReturn(row) ==
    LET details == Lower(OrEmpty(row.details))
    IN  Contains(details, <<"r", "e", "t", "u", "r", "n">>) \/ Contains(details, <<"r", "e", "f", "u", "n", "d">>)
\* a variant that takes the last number of the line, as the POS loop does
ReturnAmountOfLastNumber(row) ==
    LET nums == FindAllNumbers(Lower(OrEmpty(row.details)), 1)
    IN  IF IsReturn(row) /\ nums # <<>> THEN FloatOfNumber(nums[Len(nums)]) ELSE 0
\* match = re.search(r"\d+\.?\d*", details); float(match.group()) if match
ReturnAmount(row) ==
    LET nums == FindAllNumbers(Lower(OrEmpty(row.details)), 1)
    IN  IF IsReturn(row) /\ nums # <<>> THEN FloatOfNumber(nums[1]) ELSE 0

\* --- refresh_dashboard_cache: the POS totals and the snapshot -----------
\* sum(numbers)
RECURSIVE Sum(_)
Sum(numbers) == IF numbers = <<>> THEN 0 ELSE Head(numbers) + Sum(Tail(numbers))
\* float(row.get("total", 0)) converts for every row of eod_data
TotalsConvert(rows) == \A i \in 1..Len(rows) : ToFloat(rows[i].total).ok
Pos1TotalConverts == TotalsConvert(eod_data)
Pos1Total(rows) == Sum([i \in 1..Len(rows) |-> ToFloat(rows[i].total).v])
pos1_total == Pos1Total(eod_data)
PosTotalPaid(rows) ==
    LET kept == SelectSeq(rows, LAMBDA row : ~IsVoid(OrEmpty(row.details)))
    IN  Sum([i \in 1..Len(kept) |-> LastNumberOrZero(OrEmpty(kept[i].details))])

\* sorted(daily_trends.keys())
RECURSIVE SortedTexts(_)
SortedTexts(S) ==
    IF S = {} THEN <<>>
    ELSE LET first == CHOOSE x \in S : \A y \in S : StrLessEq(x, y)
         IN  <<first>> \o SortedTexts(S \ {first})

\* the dictionary built from the totals t, the staff figures perf, the trend
\* figures trends and the rows fetched
DashboardOf(t, perf, trends, eod, pos2, pos3) ==
    LET sorted_dates == SortedTexts(DOMAIN trends)
    IN  [today_sale |-> Round2(t.daily),
         week_sale |-> Round2(t.weekly),
         month_sale |-> Round2(t.monthly),
         fuel_total |-> Round2(t.fuel),
         diesel_total |-> Round2(t.diesel),
         unleaded_total |-> Round2(t.unleaded),
         nonfuel_total |-> Round2(t.nonfuel),
         total_revenue |-> Round2(t.revenue),
         nett_revenue |-> Round2(t.revenue - t.returns),
         total_returns |-> Round2(t.returns),
         total_transactions |-> t.transactions,
         staff_performance |-> perf,
         revenue_trend_labels |-> sorted_dates,
         revenue_trend_data |-> [i \in 1..Len(sorted_dates) |-> trends[sorted_dates[i]]],
         pos1_total_paid |-> Round2(Pos1Total(eod)),
         pos2_total_paid |-> Round2(PosTotalPaid(pos2)),
         pos3_total_paid |-> Round2(PosTotalPaid(pos3)),
         week_start |-> week_start,
         week_end |-> week_end,
         month_start |-> month_start,
         month_end |-> month_end,
         today |-> dash_today]
Dashboard == DashboardOf(totals, staff_perf, daily_trends, eod_data, pos2_data, pos3_data)

\* --- refresh_dashboard_cache: the steps ---------------------------------
InEodLoop == refresh_pc = "running" /\ refresh_i < Len(eod_data)
InPosLoop ==
    /\ refresh_pc = "running"
    /\ refresh_i >= Len(eod_data)
    /\ refresh_i < Len(eod_data) + Len(all_pos)
InReturnsLoop ==
    /\ refresh_pc = "running"
    /\ refresh_i >= Len(eod_data) + Len(all_pos)
    /\ refresh_i < Len(eod_data) + Len(all_pos) + Len(posaud_data)
LoopsDone ==
    /\ refresh_pc = "running"
    /\ refresh_i = Len(eod_data) + Len(all_pos) + Len(posaud_data)

\* a variant that goes on from the totals a run before it left
RefreshBeginWithOldTotals ==
    /\ refresh_pc = "idle"
    /\ refresh_pc' = "running"
    /\ refresh_i' = 0
    /\ eod_data' = fetch_eod_data(IsoFormat(month_start), IsoFormat(dash_today))
    /\ pos2_data' = fetch_pos2_stock_data(IsoFormat(month_start), IsoFormat(dash_today))
    /\ pos3_data' = fetch_pos3_stock_data(IsoFormat(month_start), IsoFormat(dash_today))
    /\ posaud_data' = fetch_posaud_sales(IsoFormat(month_start))
    /\ UNCHANGED <<totals, staff_perf, daily_trends, cache, storeVars, adminVars>>

\* the dates, the four fetches and the initial totals
RefreshBegin ==
    /\ refresh_pc = "idle"
    /\ refresh_pc' = "running"
    /\ refresh_i' = 0
    /\ eod_data' = fetch_eod_data(IsoFormat(month_start), IsoFormat(dash_today))
    /\ pos2_data' = fetch_pos2_stock_data(IsoFormat(month_start), IsoFormat(dash_today))
    /\ pos3_data' = fetch_pos3_stock_data(IsoFormat(month_start), IsoFormat(dash_today))
    /\ posaud_data' = fetch_posaud_sales(IsoFormat(month_start))
    /\ totals' = NoTotals
    /\ staff_perf' = <<>>
    /\ daily_trends' = <<>>
    /\ UNCHANGED <<cache, storeVars, adminVars>>

\* for row in eod_data
RefreshEodRow ==
    /\ InEodLoop
    /\ LET row == eod_data[refresh_i + 1]
       IN  /\ totals' = EodTotals(totals, row)
           /\ staff_perf' = IF EodAttributed(row)
                            THEN AddToStaff(staff_perf, EodAttendant(row), ToFloat(row.total).v)
                            ELSE staff_perf
           /\ daily_trends' = IF EodAttributed(row)
                              THEN AddToTrend(daily_trends, row.s_date.s, ToFloat(row.total).v)
                              ELSE daily_trends
    /\ refresh_i' = refresh_i + 1
    /\ UNCHANGED <<refresh_pc, fetchVars, cache, storeVars, adminVars>>

\* for row in all_pos
RefreshPosRow ==
    /\ InPosLoop
    /\ LET row == all_pos[refresh_i - Len(eod_data) + 1]
       IN  /\ totals' = PosTotals(totals, row)
           /\ daily_trends' = IF PosCounted(row)
                              THEN AddToTrend(daily_trends, row.trandate.s, PosAmount(row))
                              ELSE daily_trends
    /\ refresh_i' = refresh_i + 1
    /\ UNCHANGED <<refresh_pc, fetchVars, staff_perf, cache, storeVars, adminVars>>

\* for row in posaud_data
RefreshReturnRow ==
    /\ InReturnsLoop
    /\ LET row == posaud_data[refresh_i - Len(eod_data) - Len(all_pos) + 1]
       IN  totals' = [totals EXCEPT !.returns = @ + ReturnAmount(row)]
    /\ refresh_i' = refresh_i + 1
    /\ UNCHANGED <<refresh_pc, fetchVars, staff_perf, daily_trends, cache, storeVars, adminVars>>

\* the seconds a snapshot stays in the cache
CacheTimeout == 300

\* a variant that sets the keys of the dictionary in the cache one by one
\* and has come as far as the totals when another run or a reader is next
RefreshWriteKeyByKey ==
    /\ LoopsDone
    /\ Pos1TotalConverts
    /\ cache' = IF cache = None THEN [value |-> Dashboard, timeout |-> CacheTimeout]
                ELSE [value |-> [cache.value EXCEPT !.total_revenue = Dashboard.total_revenue,
                                                    !.nett_revenue = Dashboard.nett_revenue],
                      timeout |-> CacheTimeout]
    /\ refresh_pc' = "done"
    /\ UNCHANGED <<refresh_i, fetchVars, totals, staff_perf, daily_trends, storeVars, adminVars>>

\* the POS totals, the snapshot and cache.set("dashboard_cache", dashboard, 300)
RefreshWrite ==
    /\ LoopsDone
    /\ Pos1TotalConverts
    /\ cache' = [value |-> Dashboard, timeout |-> CacheTimeout]
    /\ refresh_pc' = "done"
    /\ UNCHANGED <<refresh_i, fetchVars, totals, staff_perf, daily_trends, storeVars, adminVars>>

\* pos1_total: float(row.get("total", 0)) raises outside the loop's try
RefreshRaises ==
    /\ LoopsDone
    /\ ~Pos1TotalConverts
    /\ refresh_pc' = "raised"
    /\ UNCHANGED <<refresh_i, fetchVars, totals, staff_perf, daily_trends, cache, storeVars, adminVars>>

\* --- admin_dashboard: the date filters and the fetch --------------------
from_filter == request_GET.from
to_filter == request_GET.to
FiltersParse ==
    /\ Falsy(from_filter) \/ FromIsoFormat(from_filter).ok
    /\ Falsy(to_filter) \/ FromIsoFormat(to_filter).ok
from_date == IF Falsy(from_filter) THEN ReplaceDay(dash_today, 1) ELSE FromIsoFormat(from_filter).v
to_date == IF Falsy(to_filter) THEN dash_today ELSE FromIsoFormat(to_filter).v
POS_TERMINALS == {1, 2, 3}
\* the slip_items of the terminals 1, 2, 3 dated from from_date to to_date
FetchSlipItems ==
    InRange(SelectSeq(tbl_slip_items, LAMBDA item : item.termnum \in POS_TERMINALS),
            "trandate", IsoFormat(from_date), IsoFormat(to_date))

NoAggregates ==
    [total_revenue |-> 0, total_vat |-> 0, total_returns |-> 0, total_transactions |-> 0,
     fuel_total |-> 0, nonfuel_total |-> 0, diesel_total |-> 0, unleaded_total |-> 0,
     daily_sales |-> <<>>, hourly_sales |-> <<>>, staff_sales |-> <<>>, seen_slips |-> {}]

\* --- admin_dashboard: one item of the aggregation loop ------------------
ItemAmount(item) == ToFloat(Or(item.total_price, Num(0))).v
ItemName(item) == Upper(OrEmpty(item.item_name))
\* slip_id = item.get("slip_id") or item.get("id")
SlipIdOf(item) == Or(item.slip_id, item.id)
IsDiesel(name) == Contains(name, <<"D", "I", "E", "S", "E", "L">>)
IsUnleaded(name) == Contains(name, <<"U", "N", "L", "E", "A", "D", "E", "D">>)
FuelShare(name, amount) == IF IsDiesel(name) \/ IsUnleaded(name) THEN amount ELSE 0
\* (every item counted as non-fuel: the split no longer adds up)
NonFuelShareOfEveryItem(name, amount) == amount
NonFuelShare(name, amount) == IF IsDiesel(name) \/ IsUnleaded(name) THEN 0 ELSE amount

\* staff_sales[attendant]["sales"] += amount; ["transactions"] += 1, the
\* dict keeping its keys in the order they were first used
AddToStaffSales(staff, attendant, amount) ==
    IF \E i \in 1..Len(staff) : staff[i].attendant = attendant
    THEN [i \in 1..Len(staff) |->
            IF staff[i].attendant = attendant
            THEN [staff[i] EXCEPT !.sales = @ + amount, !.transactions = @ + 1]
            ELSE staff[i]]
    ELSE Append(staff, [attendant |-> attendant, sales |-> amount, transactions |-> 1])

AggregateItem(a, item) ==
    LET amount == ItemAmount(item)
        name == ItemName(item)
        slip_id == SlipIdOf(item)
    IN  [a EXCEPT
            !.total_revenue = @ + amount,
            !.total_vat = @ + ToFloat(Or(item.vat, Num(0))).v,
            !.total_transactions = @ + (IF slip_id \notin a.seen_slips THEN 1 ELSE 0),
            !.seen_slips = @ \cup {slip_id},
            !.fuel_total = @ + FuelShare(name, amount),
            !.nonfuel_total = @ + NonFuelShare(name, amount),
            !.diesel_total = @ + (IF IsDiesel(name) THEN amount ELSE 0),
            !.unleaded_total = @ + (IF IsUnleaded(name) THEN amount ELSE 0),
            !.daily_sales = IF Falsy(item.trandate) THEN @
                            ELSE AddToTrend(@, item.trandate.s, amount),
            !.hourly_sales = IF Falsy(item.trantime) THEN @
                             ELSE AddToTrend(@, SubSeq(item.trantime.s, 1, 2), amount),
            !.staff_sales = AddToStaffSales(@, Or(item.attendant, Txt(<<"U", "n", "k", "n", "o", "w", "n">>)), amount)]

\* --- admin_dashboard: the metrics and the context -----------------------
\* sum(amt for d, amt in daily_sales.items() if a <= date.fromisoformat(d) <= b);
\* trandate is a date column, so every key is an ISO date
SalesBetween(daily_sales, a, b) ==
    LET days == SortedTexts({d \in DOMAIN daily_sales : DateBetween(a, DateOfText(d), b)})
    IN  Sum([i \in 1..Len(days) |-> daily_sales[days[i]]])

\* a quotient of two amounts, kept as numerator and denominator
Ratio(n, d) == [num |-> n, den |-> d]

\* sorted(staff_sales.items(), key=sales, reverse=True): descending, equal
\* sales in the order of the dict
RECURSIVE SortedBySales(_)
SortedBySales(staff) ==
    IF staff = <<>> THEN <<>>
    ELSE LET first == CHOOSE i \in 1..Len(staff) :
                         \A j \in 1..Len(staff) :
                            /\ staff[i].sales >= staff[j].sales
                            /\ staff[i].sales = staff[j].sales => i <= j
         IN  <<staff[first]>> \o
             SortedBySales(SubSeq(staff, 1, first - 1) \o SubSeq(staff, first + 1, Len(staff)))

\* json.dumps(x): the JSON text of x, held as the value it encodes
JsonDumps(x) == [t |-> "json", of |-> x]

Context ==
    LET admin_week_start == PlusDays(dash_today, 0 - Weekday(dash_today))
        admin_week_end == PlusDays(admin_week_start, 6)
        admin_month_start == ReplaceDay(dash_today, 1)
        admin_month_end == ReplaceDay(dash_today, DaysInMonth(dash_today.y, dash_today.m))
        revenue_trend_labels == SortedTexts(DOMAIN agg.daily_sales)
        hourly_labels == SortedTexts(DOMAIN agg.hourly_sales)
        fuel_percentage == IF agg.total_revenue # 0
                           THEN Ratio(agg.fuel_total * 100, agg.total_revenue)
                           ELSE Ratio(0, 1)
    IN  [from_filter |-> from_date,
         to_filter |-> to_date,
         today |-> dash_today,
         today_sale |-> IF IsoFormat(dash_today) \in DOMAIN agg.daily_sales
                        THEN agg.daily_sales[IsoFormat(dash_today)] ELSE 0,
         week_sale |-> SalesBetween(agg.daily_sales, admin_week_start, admin_week_end),
         week_start |-> admin_week_start,
         week_end |-> admin_week_end,
         month_sale |-> SalesBetween(agg.daily_sales, admin_month_start, admin_month_end),
         month_start |-> admin_month_start,
         month_end |-> admin_month_end,
         total_revenue |-> agg.total_revenue,
         nett_revenue |-> agg.total_revenue - agg.total_returns,
         total_vat |-> agg.total_vat,
         total_returns |-> agg.total_returns,
         total_transactions |-> agg.total_transactions,
         avg_transaction_value |-> IF agg.total_transactions # 0
                                   THEN Ratio(agg.total_revenue, agg.total_transactions)
                                   ELSE Ratio(0, 1),
         fuel_total |-> agg.fuel_total,
         nonfuel_total |-> agg.nonfuel_total,
         fuel_percentage |-> fuel_percentage,
         nonfuel_percentage |-> Ratio(100 * fuel_percentage.den - fuel_percentage.num,
                                      fuel_percentage.den),
         diesel_total |-> agg.diesel_total,
         unleaded_total |-> agg.unleaded_total,
         staff_performance |-> SortedBySales(agg.staff_sales),
         revenue_trend_labels |-> JsonDumps(revenue_trend_labels),
         revenue_trend_data |-> JsonDumps([i \in 1..Len(revenue_trend_labels) |->
                                              agg.daily_sales[revenue_trend_labels[i]]]),
         hourly_labels |-> JsonDumps(hourly_labels),
         hourly_sales |-> JsonDumps([i \in 1..Len(hourly_labels) |->
                                        agg.hourly_sales[hourly_labels[i]]]),
         inventory_alerts |-> <<>>]

\* --- admin_dashboard: the steps -----------------------------------------
\* the filters parse: the fetch and the initial aggregates
AdminBegin ==
    /\ admin_pc = "idle"
    /\ FiltersParse
    /\ admin_pc' = "running"
    /\ admin_i' = 0
    /\ all_data' = FetchSlipItems
    /\ agg' = NoAggregates
    /\ UNCHANGED <<request_GET, context, storeVars, refreshVars>>

\* date.fromisoformat raises ValueError on a from or to that is no ISO date
AdminBeginRaises ==
    /\ admin_pc = "idle"
    /\ ~FiltersParse
    /\ admin_pc' = "raised"
    /\ UNCHANGED <<request_GET, admin_i, all_data, agg, context, storeVars, refreshVars>>

\* for item in all_data
AdminItem ==
    /\ admin_pc = "running"
    /\ admin_i < Len(all_data)
    /\ agg' = AggregateItem(agg, all_data[admin_i + 1])
    /\ admin_i' = admin_i + 1
    /\ UNCHANGED <<request_GET, admin_pc, all_data, context, storeVars, refreshVars>>

\* the metrics, the charts and render(...)
AdminRender ==
    /\ admin_pc = "running"
    /\ admin_i = Len(all_data)
    /\ context' = Context
    /\ admin_pc' = "done"
    /\ UNCHANGED <<request_GET, admin_i, all_data, agg, storeVars, refreshVars>>

\* --- the clock and the tables the dashboards are run on -----------------
\* Monday 2025-02-03, and Saturday 2025-02-01 whose week began in January
DashDays == {Date(2025, 2, 3), Date(2025, 2, 1)}

EodRow(s_date, s_time, total, gradeid, tagid) ==
    [s_date |-> s_date, s_time |-> s_time, total |-> total, gradeid |-> gradeid, tagid |-> tagid]
PosRow(trandate, trantime, details, opref) ==
    [trandate |-> trandate, trantime |-> trantime, details |-> details, opref |-> opref]
SlipItem(id, slip_id, termnum, trandate, trantime, total_price, vat, item_name, attendant) ==
    [id |-> Num(id), slip_id |-> slip_id, termnum |-> termnum, trandate |-> trandate,
     trantime |-> trantime, total_price |-> total_price, vat |-> vat,
     item_name |-> item_name, attendant |-> attendant]
\* unleaded, 50.00, tag of Molapo in lower case
Eod1 ==
    EodRow(Txt(<<"2", "0", "2", "5", "-", "0", "2", "-", "0", "3">>),
           Txt(<<"0", "8", ":", "0", "0", ":", "0", "0">>),
           Num(50000), Txt(<<"0", "1">>), Txt(<<"9", "4", "c", "b", "a", "1">>))
\* diesel, '2.504' as text, no tag
Eod2 ==
    EodRow(Txt(<<"2", "0", "2", "5", "-", "0", "2", "-", "0", "1">>),
           Txt(<<"0", "9", ":", "3", "0", ":", "0", "0">>),
           NumStr(2504), Txt(<<" ", "0", "2", " ">>), None)
\* no total
Eod3 ==
    EodRow(Txt(<<"2", "0", "2", "5", "-", "0", "2", "-", "0", "1">>),
           Txt(<<"1", "0", ":", "0", "0", ":", "0", "0">>),
           None, Txt(<<"0", "1">>), Txt(<<"5", "6", "B", "D", "E", "F">>))
\* no grade, a tag id that is a number
Eod4 ==
    EodRow(Txt(<<"2", "0", "2", "5", "-", "0", "2", "-", "0", "3">>),
           Txt(<<"1", "1", ":", "0", "0", ":", "0", "0">>),
           Num(2504), None, Num(7))
EodRows == {Eod1, Eod2, Eod3, Eod4}
\* Bound: the rows of eod_data
MaxEodRows == 2

\* 'BREAD 15.00'
Bread ==
    PosRow(Txt(<<"2", "0", "2", "5", "-", "0", "2", "-", "0", "3">>),
           Txt(<<"1", "2", ":", "0", "0", ":", "0", "0">>),
           Txt(<<"B", "R", "E", "A", "D", " ", "1", "5", ".", "0", "0">>),
           Txt(<<"R", "1">>))
\* 'BUTTER 30.00', a second line of the receipt of Bread
Butter ==
    PosRow(Txt(<<"2", "0", "2", "5", "-", "0", "2", "-", "0", "3">>),
           Txt(<<"1", "2", ":", "0", "0", ":", "3", "0">>),
           Txt(<<"B", "U", "T", "T", "E", "R", " ", "3", "0", ".", "0", "0">>),
           Txt(<<"R", "1">>))
\* 'Void BREAD 15.00'
VoidBread ==
    PosRow(Txt(<<"2", "0", "2", "5", "-", "0", "2", "-", "0", "3">>),
           Txt(<<"1", "2", ":", "0", "5", ":", "0", "0">>),
           Txt(<<"V", "o", "i", "d", " ", "B", "R", "E", "A", "D", " ", "1", "5", ".", "0", "0">>),
           Txt(<<"R", "1">>))
\* 'COKE 2.504'
Coke ==
    PosRow(Txt(<<"2", "0", "2", "5", "-", "0", "2", "-", "0", "1">>),
           Txt(<<"1", "3", ":", "0", "0", ":", "0", "0">>),
           Txt(<<"C", "O", "K", "E", " ", "2", ".", "5", "0", "4">>),
           Txt(<<"R", "2">>))
\* 'MILK 20.00', sold on Friday 2025-01-31
Milk ==
    PosRow(Txt(<<"2", "0", "2", "5", "-", "0", "1", "-", "3", "1">>),
           Txt(<<"0", "9", ":", "0", "0", ":", "0", "0">>),
           Txt(<<"M", "I", "L", "K", " ", "2", "0", ".", "0", "0">>),
           Txt(<<"R", "7">>))
\* 'Return BREAD 15.00'
ReturnBread ==
    PosRow(Txt(<<"2", "0", "2", "5", "-", "0", "2", "-", "0", "3">>),
           Txt(<<"1", "4", ":", "0", "0", ":", "0", "0">>),
           Txt(<<"R", "e", "t", "u", "r", "n", " ", "B", "R", "E", "A", "D", " ", "1", "5", ".", "0", "0">>),
           Txt(<<"R", "3">>))
\* 'Return DIESEL 1.006 L 22.90': the litres come first
ReturnDiesel ==
    PosRow(Txt(<<"2", "0", "2", "5", "-", "0", "2", "-", "0", "3">>),
           Txt(<<"1", "4", ":", "1", "0", ":", "0", "0">>),
           Txt(<<"R", "e", "t", "u", "r", "n", " ", "D", "I", "E", "S", "E", "L", " ",
                 "1", ".", "0", "0", "6", " ", "L", " ", "2", "2", ".", "9", "0">>),
           Txt(<<"R", "6">>))
\* 'refund'
RefundNoAmount ==
    PosRow(Txt(<<"2", "0", "2", "5", "-", "0", "2", "-", "0", "1">>),
           Txt(<<"1", "4", ":", "3", "0", ":", "0", "0">>),
           Txt(<<"r", "e", "f", "u", "n", "d">>),
           Txt(<<"R", "4">>))
\* 'SALE 20.00'
Sale ==
    PosRow(Txt(<<"2", "0", "2", "5", "-", "0", "2", "-", "0", "3">>),
           Txt(<<"1", "5", ":", "0", "0", ":", "0", "0">>),
           Txt(<<"S", "A", "L", "E", " ", "2", "0", ".", "0", "0">>),
           Txt(<<"R", "5">>))
\* <<pos2_stock_data, pos3_stock_data>>
\* 'coke void 2.50'
VoidCoke ==
    PosRow(Txt(<<"2", "0", "2", "5", "-", "0", "2", "-", "0", "3">>),
           Txt(<<"1", "3", ":", "0", "5", ":", "0", "0">>),
           Txt(<<"c", "o", "k", "e", " ", "v", "o", "i", "d", " ", "2", ".", "5", "0">>),
           Txt(<<"R", "2">>))
PosTables ==
    { <<<<>>, <<>>>>, <<<<Bread, Butter>>, <<>>>>, <<<<VoidBread, Bread>>, <<Milk, Coke>>>>,
      <<<<>>, <<VoidCoke>>>> }
PosaudTables == { <<>>, <<ReturnBread, ReturnDiesel>>, <<RefundNoAmount, Sale>> }

\* a diesel line of slip 2
Item1 ==
    SlipItem(1, Num(2), 1, Txt(<<"2", "0", "2", "5", "-", "0", "2", "-", "0", "3">>),
             Txt(<<"0", "8", ":", "1", "5", ":", "0", "0">>),
             Num(50000), Num(6520), Txt(<<"D", "i", "e", "s", "e", "l", " ", "5", "0", "p", "p", "m">>),
             Txt(<<"T", "h", "a", "b", "o">>))
\* a line without slip_id, whose own id is 2
Item2 ==
    SlipItem(2, None, 2, Txt(<<"2", "0", "2", "5", "-", "0", "2", "-", "0", "3">>),
             Txt(<<"0", "9", ":", "0", "0", ":", "0", "0">>),
             NumStr(15000), None, Txt(<<"B", "R", "E", "A", "D">>),
             None)
\* an unleaded line of slip 2
Item3 ==
    SlipItem(3, Num(2), 1, Txt(<<"2", "0", "2", "5", "-", "0", "2", "-", "0", "1">>),
             Txt(<<"0", "8", ":", "4", "5", ":", "0", "0">>),
             Num(30000), Num(3910), Txt(<<"U", "n", "l", "e", "a", "d", "e", "d", " ", "9", "5">>),
             Txt(<<"T", "h", "a", "b", "o">>))
\* a line of slip 5 without total_price
Item4 ==
    SlipItem(4, Num(5), 3, Txt(<<"2", "0", "2", "5", "-", "0", "2", "-", "0", "1">>),
             Txt(<<"1", "7", ":", "2", "0", ":", "0", "0">>),
             None, None, Txt(<<"C", "O", "K", "E">>),
             Txt(<<"S", "i", "p", "h", "o">>))
\* a line without slip_id, whose own id is 5, named after both fuels
Item5 ==
    SlipItem(5, None, 1, Txt(<<"2", "0", "2", "5", "-", "0", "2", "-", "0", "3">>),
             Txt(<<"1", "8", ":", "0", "0", ":", "0", "0">>),
             Num(10000), Num(1300), Txt(<<"u", "n", "l", "e", "a", "d", "e", "d", "/", "d", "i", "e", "s", "e", "l", " ", "m", "i", "x">>),
             Txt(<<>>))
\* a line of terminal 4
Item6 ==
    SlipItem(6, Num(6), 4, Txt(<<"2", "0", "2", "5", "-", "0", "2", "-", "0", "3">>),
             Txt(<<"1", "9", ":", "0", "0", ":", "0", "0">>),
             Num(9000), Num(1170), Txt(<<"O", "I", "L">>),
             Txt(<<"S", "i", "p", "h", "o">>))
\* a line of the last day of January
Item7 ==
    SlipItem(7, Num(7), 2, Txt(<<"2", "0", "2", "5", "-", "0", "1", "-", "3", "1">>),
             Txt(<<"0", "7", ":", "0", "0", ":", "0", "0">>),
             Num(20000), Num(2610), Txt(<<"M", "I", "L", "K">>),
             None)
SlipItems == {Item1, Item2, Item3, Item4, Item5, Item6, Item7}
\* Bound: the rows of slip_items
MaxSlipItems == 2
\* the tables of slip_items: id is the primary key, so no row occurs twice
SlipItemTables ==
    {q \in SeqsUpTo(SlipItems, MaxSlipItems) : \A i, j \in 1..Len(q) : q[i] = q[j] => i = j}

\* the from/to parameters of the request: none, a range, a from that is no ISO date
Requests ==
    { [from |-> None, to |-> None],
      [from |-> Txt(<<"2", "0", "2", "5", "-", "0", "1", "-", "2", "7">>),
       to |-> Txt(<<>>)],
      [from |-> Txt(<<"2", "0", "2", "5", "-", "1", "-", "2", "7">>), to |-> None] }

DashStart ==
    /\ dash_today \in DashDays
    /\ \/ /\ tbl_eod_data \in SeqsUpTo(EodRows, MaxEodRows)
          /\ \E pos \in PosTables :
                /\ tbl_pos2_stock_data = pos[1]
                /\ tbl_pos3_stock_data = pos[2]
          /\ tbl_posaud \in PosaudTables
          /\ tbl_slip_items \in {<<>>, <<Item1, Item2>>}
          /\ request_GET = [from |-> None, to |-> None]
       \/ /\ tbl_eod_data \in {<<>>, <<Eod1>>}
          /\ tbl_pos2_stock_data = IF tbl_eod_data = <<>> THEN <<>> ELSE <<Bread>>
          /\ tbl_pos3_stock_data = <<>>
          /\ tbl_posaud = <<>>
          /\ tbl_slip_items \in SlipItemTables
          /\ request_GET \in Requests
    /\ refresh_pc = "idle"
    /\ refresh_i = 0
    /\ eod_data = <<>>
    /\ pos2_data = <<>>
    /\ pos3_data = <<>>
    /\ posaud_data = <<>>
    /\ totals = NoTotals
    /\ staff_perf = <<>>
    /\ daily_trends = <<>>
    /\ cache = None
    /\ admin_pc = "idle"
    /\ admin_i = 0
    /\ all_data = <<>>
    /\ agg = NoAggregates
    /\ context = None

DashIdle ==
    /\ dash_today = Date(2025, 2, 3)
    /\ tbl_eod_data = <<>>
    /\ tbl_pos2_stock_data = <<>>
    /\ tbl_pos3_stock_data = <<>>
    /\ tbl_posaud = <<>>
    /\ tbl_slip_items = <<>>
    /\ request_GET = [from |-> None, to |-> None]
    /\ refresh_pc = "off"
    /\ refresh_i = 0
    /\ eod_data = <<>>
    /\ pos2_data = <<>>
    /\ pos3_data = <<>>
    /\ posaud_data = <<>>
    /\ totals = NoTotals
    /\ staff_perf = <<>>
    /\ daily_trends = <<>>
    /\ cache = None
    /\ admin_pc = "off"
    /\ admin_i = 0
    /\ all_data = <<>>
    /\ agg = NoAggregates
    /\ context = None

(***************************************************************************)
(* refresh_dashboard_cache as a scheduled task: runs one after another,    *)
(* a second worker of the cluster, readers of the cache                    *)
(***************************************************************************)
\* the locals of a run after its three loops over the rows fetched, from
\* the initial totals on
Locals(t, perf, trends) == [totals |-> t, staff_perf |-> perf, daily_trends |-> trends]
RECURSIVE AfterEodRows(_, _)
AfterEodRows(l, rows) ==
    IF rows = <<>> THEN l
    ELSE LET row == Head(rows)
             next == Locals(EodTotals(l.totals, row),
                            IF EodAttributed(row)
                            THEN AddToStaff(l.staff_perf, EodAttendant(row), ToFloat(row.total).v)
                            ELSE l.staff_perf,
                            IF EodAttributed(row)
                            THEN AddToTrend(l.daily_trends, row.s_date.s, ToFloat(row.total).v)
                            ELSE l.daily_trends)
         IN  AfterEodRows(next, Tail(rows))
RECURSIVE AfterPosRows(_, _)
AfterPosRows(l, rows) ==
    IF rows = <<>> THEN l
    ELSE LET row == Head(rows)
             next == Locals(PosTotals(l.totals, row),
                            l.staff_perf,
                            IF PosCounted(row)
                            THEN AddToTrend(l.daily_trends, row.trandate.s, PosAmount(row))
                            ELSE l.daily_trends)
         IN  AfterPosRows(next, Tail(rows))
RECURSIVE AfterReturnRows(_, _)
AfterReturnRows(l, rows) ==
    IF rows = <<>> THEN l
    ELSE AfterReturnRows([l EXCEPT !.totals.returns = @ + ReturnAmount(Head(rows))], Tail(rows))
\* the dictionary one run of the task builds from the rows it fetched
RunDashboard(eod, pos2, pos3, posaud) ==
    LET l == AfterReturnRows(AfterPosRows(AfterEodRows(Locals(NoTotals, <<>>, <<>>), eod),
                                          pos2 \o pos3),
                             posaud)
    IN  DashboardOf(l.totals, l.staff_perf, l.daily_trends, eod, pos2, pos3)
\* the same for the rows the store holds now
StoreDashboard ==
    RunDashboard(fetch_eod_data(IsoFormat(month_start), IsoFormat(dash_today)),
                 fetch_pos2_stock_data(IsoFormat(month_start), IsoFormat(dash_today)),
                 fetch_pos3_stock_data(IsoFormat(month_start), IsoFormat(dash_today)),
                 fetch_posaud_sales(IsoFormat(month_start)))

\* the rows of three stores: <<eod_data, pos2_stock_data, pos3_stock_data, posaud>>
WorkerStores ==
    { << <<Eod1>>, <<Bread, Butter>>, <<>>, <<ReturnBread>> >>,
      << <<Eod2>>, <<VoidBread>>, <<Coke>>, <<RefundNoAmount>> >>,
      << <<Eod3>>, <<>>, <<>>, <<>> >> }
Unread == [t |-> "Unread"]

\* query.range(...).execute() of one of the four fetches raises: the fetch
\* helpers and the task catch nothing, the run ends there
RefreshFetchRaises ==
    /\ refresh_pc = "idle"
    /\ refresh_pc' = "unavailable"
    /\ UNCHANGED <<refresh_i, fetchVars, totals, staff_perf, daily_trends, cache, storeVars,
                   adminVars>>

\* the schedule of create_schedule (every minute, repeats = -1) starts the
\* task again once a run has ended
ScheduleNext ==
    /\ refresh_pc \in {"done", "raised", "unavailable"}
    /\ refresh_pc' = "idle"
    /\ UNCHANGED <<refresh_i, fetchVars, totals, staff_perf, daily_trends, cache, storeVars,
                   adminVars, workerVars>>

\* the tables of the store get other rows
StoreChanges ==
    /\ \E store \in WorkerStores :
          /\ store # <<tbl_eod_data, tbl_pos2_stock_data, tbl_pos3_stock_data, tbl_posaud>>
          /\ tbl_eod_data' = store[1]
          /\ tbl_pos2_stock_data' = store[2]
          /\ tbl_pos3_stock_data' = store[3]
          /\ tbl_posaud' = store[4]
    /\ rows_changed' = TRUE
    /\ UNCHANGED <<dash_today, tbl_slip_items, refreshVars, adminVars, worker2_pc,
                   worker2_dashboard, seen>>

\* a second worker runs the task: its locals are its own, so its run is
\* taken in two steps, the fetches (with the dictionary they lead to) and
\* cache.set
Worker2Begin ==
    /\ worker2_pc = "idle"
    /\ TotalsConvert(fetch_eod_data(IsoFormat(month_start), IsoFormat(dash_today)))
    /\ worker2_pc' = "running"
    /\ worker2_dashboard' = StoreDashboard
    /\ UNCHANGED <<seen, rows_changed, storeVars, refreshVars, adminVars>>
Worker2Raises ==
    /\ worker2_pc = "idle"
    /\ ~TotalsConvert(fetch_eod_data(IsoFormat(month_start), IsoFormat(dash_today)))
    /\ worker2_pc' = "raised"
    /\ UNCHANGED <<worker2_dashboard, seen, rows_changed, storeVars, refreshVars, adminVars>>
Worker2Write ==
    /\ worker2_pc = "running"
    /\ cache' = [value |-> worker2_dashboard, timeout |-> CacheTimeout]
    /\ worker2_pc' = "done"
    /\ UNCHANGED <<worker2_dashboard, seen, rows_changed, storeVars, refresh_pc, refresh_i,
                   fetchVars, totals, staff_perf, daily_trends, adminVars>>
Worker2Next ==
    /\ worker2_pc \in {"done", "raised"}
    /\ worker2_pc' = "idle"
    /\ UNCHANGED <<worker2_dashboard, seen, rows_changed, storeVars, refreshVars, adminVars>>

\* cache.get("dashboard_cache") of a reader: the value, None when no run has
\* written yet
CacheGet ==
    /\ seen' = IF cache = None THEN None ELSE cache.value
    /\ seen' # seen
    /\ UNCHANGED <<worker2_pc, worker2_dashboard, rows_changed, storeVars, refreshVars,
                   adminVars>>

WorkersIdle ==
    /\ worker2_pc = "off"
    /\ worker2_dashboard = None
    /\ seen = Unread
    /\ rows_changed = FALSE

WorkersStart ==
    /\ dash_today \in DashDays
    /\ \E store \in WorkerStores :
          /\ tbl_eod_data = store[1]
          /\ tbl_pos2_stock_data = store[2]
          /\ tbl_pos3_stock_data = store[3]
          /\ tbl_posaud = store[4]
    /\ tbl_slip_items = <<>>
    /\ request_GET = [from |-> None, to |-> None]
    /\ refresh_pc = "idle"
    /\ refresh_i = 0
    /\ eod_data = <<>>
    /\ pos2_data = <<>>
    /\ pos3_data = <<>>
    /\ posaud_data = <<>>
    /\ totals = NoTotals
    /\ staff_perf = <<>>
    /\ daily_trends = <<>>
    /\ cache = None
    /\ admin_pc = "off"
    /\ admin_i = 0
    /\ all_data = <<>>
    /\ agg = NoAggregates
    /\ context = None
    /\ worker2_pc = "idle"
    /\ worker2_dashboard = None
    /\ seen = Unread
    /\ rows_changed = FALSE

(***************************************************************************)
(* till_slip_analysis_dynamic (views.py): the slips of a terminal with     *)
(* their items and financial adjustments, from the rows fetched on         *)
(***************************************************************************)
\* slip_id = item.get("slip_id") or f"slip_{item.get('id')}", and
\* fin.get("slip_id") or f"fin_{fin.get('id')}"
SlipKey(row, prefix) ==
    IF Falsy(row.slip_id) THEN [prefix |-> prefix, id |-> row.id] ELSE [prefix |-> "", id |-> row.slip_id]
NewSlip ==
    [items |-> <<>>, amount_paid |-> 0, vat |-> 0, returns |-> 0, payouts |-> 0,
     receipts |-> 0, payments |-> 0]
\* slips[slip_id], the slip entered when slip_id is not in slips
SlipAt(s, key) == IF key \in DOMAIN s THEN s[key] ELSE NewSlip
PutSlip(s, key, slip) == [k \in DOMAIN s \cup {key} |-> IF k = key THEN slip ELSE s[k]]
NoTillTotals ==
    [amount_paid |-> 0, vat |-> 0, returns |-> 0, payouts |-> 0, receipts |-> 0, payments |-> 0]

\* float(x or 0)
FloatOrZero(x) == ToFloat(Or(x, Num(0)))
InSalesLoop == till_pc = "running" /\ till_i < Len(all_sales)
InFinLoop ==
    /\ till_pc = "running"
    /\ till_i >= Len(all_sales)
    /\ till_i < Len(all_sales) + Len(all_fin)
SaleConverts(item) ==
    FloatOrZero(item.qty).ok /\ FloatOrZero(item.total_price).ok /\ FloatOrZero(item.vat).ok
\* (fin.get("fin_type") or "").upper() needs a text
FinConverts(fin) == FloatOrZero(fin.amount).ok /\ Or(fin.fin_type, Txt(<<>>)).t = "str"
fin_type(fin) == Upper(Or(fin.fin_type, Txt(<<>>)).s)
\* the total and the slip field of a kind, "" for a kind that has none
FinField(kind) ==
    CASE kind = <<"R", "E", "T", "U", "R", "N">> -> "returns"
      [] kind = <<"P", "A", "Y", "O", "U", "T">> -> "payouts"
      [] kind = <<"R", "E", "C", "E", "I", "P", "T">> -> "receipts"
      [] kind = <<"P", "A", "Y", "M", "E", "N", "T">> -> "payments"
      [] OTHER -> ""
\* a variant that takes every kind it does not know for a return
FinFieldReturnByDefault(kind) ==
    CASE kind = <<"P", "A", "Y", "O", "U", "T">> -> "payouts"
      [] kind = <<"R", "E", "C", "E", "I", "P", "T">> -> "receipts"
      [] kind = <<"P", "A", "Y", "M", "E", "N", "T">> -> "payments"
      [] OTHER -> "returns"

\* for item in all_sales
TillSaleItem ==
    /\ InSalesLoop
    /\ LET item == all_sales[till_i + 1]
           key == SlipKey(item, "slip_")
           amount == FloatOrZero(item.total_price).v
           vat == FloatOrZero(item.vat).v
           line == [name |-> Or(item.item_name, Txt(<<"U", "n", "k", "n", "o", "w", "n">>)),
                    quantity |-> FloatOrZero(item.qty).v, amount |-> amount, vat |-> vat]
       IN  /\ SaleConverts(item)
           /\ slips' = PutSlip(slips, key,
                               [SlipAt(slips, key) EXCEPT !.items = Append(@, line),
                                                          !.amount_paid = @ + amount,
                                                          !.vat = @ + vat])
           /\ till_totals' = [till_totals EXCEPT !.amount_paid = @ + amount, !.vat = @ + vat]
    /\ till_i' = till_i + 1
    /\ UNCHANGED <<all_sales, all_fin, till_pc, till_context>>

\* for fin in all_fin
TillFinancial ==
    /\ InFinLoop
    /\ LET fin == all_fin[till_i - Len(all_sales) + 1]
           key == SlipKey(fin, "fin_")
           amount == FloatOrZero(fin.amount).v
           field == FinField(fin_type(fin))
       IN  /\ FinConverts(fin)
           /\ slips' = PutSlip(slips, key,
                               IF field = "" THEN SlipAt(slips, key)
                               ELSE [SlipAt(slips, key) EXCEPT ![field] = @ + amount])
           /\ till_totals' = IF field = "" THEN till_totals
                             ELSE [till_totals EXCEPT ![field] = @ + amount]
    /\ till_i' = till_i + 1
    /\ UNCHANGED <<all_sales, all_fin, till_pc, till_context>>

\* float(...) or .upper() raises on the row: nothing in the view catches it
TillRaises ==
    /\ \/ InSalesLoop /\ ~SaleConverts(all_sales[till_i + 1])
       \/ InFinLoop /\ ~FinConverts(all_fin[till_i - Len(all_sales) + 1])
    /\ till_pc' = "raised"
    /\ UNCHANGED <<all_sales, all_fin, till_i, slips, till_totals, till_context>>

\* nett_takings and the context rendered
TillRender ==
    /\ till_pc = "running"
    /\ till_i = Len(all_sales) + Len(all_fin)
    /\ till_context' =
          [total_transactions |-> Cardinality(DOMAIN slips),
           total_amount_paid |-> till_totals.amount_paid,
           total_vat_amount |-> till_totals.vat,
           total_returns |-> till_totals.returns,
           total_payouts |-> till_totals.payouts,
           total_receipts |-> till_totals.receipts,
           total_payments |-> till_totals.payments,
           nett_takings |-> till_totals.amount_paid - till_totals.returns - till_totals.payouts
                              - till_totals.receipts - till_totals.payments]
    /\ till_pc' = "done"
    /\ UNCHANGED <<all_sales, all_fin, till_i, slips, till_totals>>

\* the rows fetched: items of slips and financial adjustments
SaleLine(id, slip_id, qty, total_price, vat, item_name) ==
    [id |-> Num(id), slip_id |-> slip_id, qty |-> qty, total_price |-> total_price, vat |-> vat,
     item_name |-> item_name]
Fin(id, slip_id, kind, amount) ==
    [id |-> Num(id), slip_id |-> slip_id, fin_type |-> kind, amount |-> amount]
SaleLines ==
    { <<>>,
      <<SaleLine(1, Num(2), Num(1), Num(15000), Num(1960), Txt(<<"B", "R", "E", "A", "D">>))>>,
      <<SaleLine(1, Num(2), Num(1), Num(15000), Num(1960), Txt(<<"B", "R", "E", "A", "D">>)),
        SaleLine(2, None, None, NumStr(2500), None, None)>>,
      <<SaleLine(3, Num(2), BadStr, Num(1000), Num(0), None)>> }
Fins ==
    { Fin(1, Num(2), Txt(<<"R", "E", "T", "U", "R", "N">>), Num(5000)),
      Fin(2, Num(2), Txt(<<"p", "a", "y", "o", "u", "t">>), NumStr(2000)),
      Fin(3, None, Txt(<<"R", "e", "c", "e", "i", "p", "t">>), Num(3000)),
      Fin(4, Num(9), Txt(<<"P", "A", "Y", "M", "E", "N", "T">>), None),
      Fin(5, Num(2), Txt(<<"D", "I", "S", "C", "O", "U", "N", "T">>), Num(7000)),
      Fin(6, None, None, Num(4000)),
      Fin(7, Num(2), Txt(<<"V", "O", "I", "D">>), BadStr),
      Fin(8, Num(2), Num(3), Num(1000)) }
MaxFins == 2

NoContext == [t |-> "None"]
TillStart ==
    /\ all_sales \in SaleLines
    /\ all_fin \in SeqsUpTo(Fins, MaxFins)
    /\ till_pc = "running"
    /\ till_i = 0
    /\ slips = <<>>
    /\ till_totals = NoTillTotals
    /\ till_context = NoContext
TillIdle ==
    /\ all_sales = <<>>
    /\ all_fin = <<>>
    /\ till_pc = "off"
    /\ till_i = 0
    /\ slips = <<>>
    /\ till_totals = NoTillTotals
    /\ till_context = NoContext


(***************************************************************************)
(* The pagination loop of the fetch functions (utils/supabase_utils.py)    *)
(***************************************************************************)
\* page_size = 1000
page_size == 1000
\* query.range(start, end).execute(), then response.data or []: the rows
\* of the result set at the offsets start..end, counted from 0, both ends
\* included; none when the result set ends before start
Range(rows, start, end) ==
    IF start >= Len(rows) THEN <<>>
    ELSE SubSeq(rows, start + 1, IF end + 1 < Len(rows) THEN end + 1 ELSE Len(rows))
\* a variant of the loop that goes on until a page comes back with no rows
FetchPageUntilEmpty ==
    /\ fetch_pc = "looping"
    /\ LET rows == Range(result_set, page * page_size, (page + 1) * page_size - 1)
       IN  /\ fetch_all_data' = fetch_all_data \o rows
           /\ IF Len(rows) = 0
              THEN fetch_pc' = "returned" /\ page' = page
              ELSE fetch_pc' = fetch_pc /\ page' = page + 1
    /\ page_requests' = page_requests + 1
    /\ UNCHANGED result_set
\* one round of while True: the request, all_data.extend(rows), then break
\* on a short page or page += 1
FetchPage ==
    /\ fetch_pc = "looping"
    /\ LET rows == Range(result_set, page * page_size, (page + 1) * page_size - 1)
       IN  /\ fetch_all_data' = fetch_all_data \o rows
           /\ IF Len(rows) < page_size
              THEN fetch_pc' = "returned" /\ page' = page
              ELSE fetch_pc' = fetch_pc /\ page' = page + 1
    /\ page_requests' = page_requests + 1
    /\ UNCHANGED result_set
\* Bound: the rows of the result set
MaxResultRows == 2001
\* a result set of n rows, each row named by its place in the order of the
\* query
ResultSet(n) == [i \in 1..n |-> i]
FetchStart ==
    /\ result_set \in { ResultSet(n) : n \in 0..MaxResultRows }
    /\ page = 0
    /\ fetch_all_data = <<>>
    /\ fetch_pc = "looping"
    /\ page_requests = 0
FetchIdle ==
    /\ result_set = <<>>
    /\ page = 0
    /\ fetch_all_data = <<>>
    /\ fetch_pc = "off"
    /\ page_requests = 0

(***************************************************************************)
(* custom_login_view (views.py) and the lock fields of CustomUser          *)
(* (models.py).  A request works on user_obj, its own copy of the account  *)
(* row; save() writes every field of the copy back.                        *)
(***************************************************************************)
MAX_FAILED_ATTEMPTS == 4
\* the e-mail addresses of the accounts, and one that has no account
Emails == {"staff@example.com"}
UnknownEmail == "nobody@example.com"
Passwords == {"right", "wrong"}
\* the processes that serve requests
Slots == {1, 2}
\* Bound: the requests served
MaxLogins == 7
\* a new account: failed_attempts default 0, is_locked default False
NewUser == [password |-> "right", failed_attempts |-> 0, is_locked |-> FALSE]
NoRequest == [t |-> "None"]

\* CustomUser.objects.get(email=email), DoesNotExist for no such account,
\* then the is_locked test on the copy
LoginGet(r) ==
    /\ login_pc[r] = "idle"
    /\ logins_begun < MaxLogins
    /\ logins_begun' = logins_begun + 1
    /\ \E email \in Emails \cup {UnknownEmail}, password \in Passwords :
           /\ login_request' = [login_request EXCEPT ![r] = [email |-> email, password |-> password]]
           /\ IF email \notin Emails
              THEN /\ login_response' = [login_response EXCEPT ![r] = "invalid"]
                   /\ UNCHANGED <<login_pc, user_obj>>
              ELSE IF users[email].is_locked
              THEN /\ login_response' = [login_response EXCEPT ![r] = "locked"]
                   /\ user_obj' = [user_obj EXCEPT ![r] = users[email]]
                   /\ UNCHANGED login_pc
              ELSE /\ login_response' = [login_response EXCEPT ![r] = "pending"]
                   /\ user_obj' = [user_obj EXCEPT ![r] = users[email]]
                   /\ login_pc' = [login_pc EXCEPT ![r] = "authenticate"]
    /\ UNCHANGED <<users, wrong_checked>>

\* user = authenticate(request, email=email, password=password): the
\* password is checked against the account row as it is stored now
LoginAuthenticate(r) ==
    /\ login_pc[r] = "authenticate"
    /\ LET email == login_request[r].email
           matches == login_request[r].password = users[email].password
       IN  /\ login_pc' = [login_pc EXCEPT ![r] = IF matches THEN "success" ELSE "failure"]
           /\ wrong_checked' = [wrong_checked EXCEPT ![email] = IF matches THEN @ ELSE @ + 1]
    /\ UNCHANGED <<users, login_request, user_obj, login_response, logins_begun>>

\* user_obj.failed_attempts = 0; user_obj.save(); login(request, user)
LoginSucceeds(r) ==
    /\ login_pc[r] = "success"
    /\ LET email == login_request[r].email
           saved == [user_obj[r] EXCEPT !.failed_attempts = 0]
       IN  /\ users' = [users EXCEPT ![email] = saved]
           /\ user_obj' = [user_obj EXCEPT ![r] = saved]
           /\ wrong_checked' = [wrong_checked EXCEPT ![email] = 0]
    /\ login_response' = [login_response EXCEPT ![r] = "logged in"]
    /\ login_pc' = [login_pc EXCEPT ![r] = "idle"]
    /\ UNCHANGED <<login_request, logins_begun>>

\* a variant that locks when failed_attempts reaches MAX_FAILED_ATTEMPTS
LoginFailsLockAtMax(r) ==
    /\ login_pc[r] = "failure"
    /\ LET email == login_request[r].email
           attempts == user_obj[r].failed_attempts + 1
           saved == [user_obj[r] EXCEPT !.failed_attempts = attempts,
                                        !.is_locked = IF attempts >= MAX_FAILED_ATTEMPTS
                                                      THEN TRUE ELSE @]
       IN  /\ users' = [users EXCEPT ![email] = saved]
           /\ user_obj' = [user_obj EXCEPT ![r] = saved]
           /\ login_response' = [login_response EXCEPT ![r] =
                                    IF attempts >= MAX_FAILED_ATTEMPTS THEN "locked now" ELSE "invalid"]
    /\ login_pc' = [login_pc EXCEPT ![r] = "idle"]
    /\ UNCHANGED <<login_request, logins_begun, wrong_checked>>

\* user_obj.failed_attempts += 1; is_locked = True when it is over
\* MAX_FAILED_ATTEMPTS; user_obj.save()
LoginFails(r) ==
    /\ login_pc[r] = "failure"
    /\ LET email == login_request[r].email
           attempts == user_obj[r].failed_attempts + 1
           saved == [user_obj[r] EXCEPT !.failed_attempts = attempts,
                                        !.is_locked = IF attempts > MAX_FAILED_ATTEMPTS
                                                      THEN TRUE ELSE @]
       IN  /\ users' = [users EXCEPT ![email] = saved]
           /\ user_obj' = [user_obj EXCEPT ![r] = saved]
           /\ login_response' = [login_response EXCEPT ![r] =
                                    IF attempts > MAX_FAILED_ATTEMPTS THEN "locked now" ELSE "invalid"]
    /\ login_pc' = [login_pc EXCEPT ![r] = "idle"]
    /\ UNCHANGED <<login_request, logins_begun, wrong_checked>>

LoginStart ==
    /\ users = [e \in Emails |-> NewUser]
    /\ login_pc = [r \in Slots |-> "idle"]
    /\ login_request = [r \in Slots |-> NoRequest]
    /\ user_obj = [r \in Slots |-> NoRequest]
    /\ login_response = [r \in Slots |-> "none"]
    /\ logins_begun = 0
    /\ wrong_checked = [e \in Emails |-> 0]
LoginIdle ==
    /\ users = <<>>
    /\ login_pc = <<>>
    /\ login_request = <<>>
    /\ user_obj = <<>>
    /\ login_response = <<>>
    /\ logins_begun = 0
    /\ wrong_checked = <<>>
ExtraIdle == TillIdle /\ FetchIdle /\ LoginIdle

(***************************************************************************)
(* Specifications                                                          *)
(***************************************************************************)
DispInit == DispStart /\ LookupIdle /\ ReportIdle /\ ParseIdle /\ DashIdle /\ WorkersIdle /\ ExtraIdle
DispNext == CalcDispensed /\ UNCHANGED <<lookupVars, reportVars, parseVars, dashVars, extraVars>>
SpecDispensed == DispInit /\ [][DispNext]_vars

LookupInit == LookupStart /\ DispIdle /\ ReportIdle /\ ParseIdle /\ DashIdle /\ WorkersIdle /\ ExtraIdle
LookupNext == GetRateForDate /\ UNCHANGED <<dispVars, reportVars, parseVars, dashVars, extraVars>>
SpecRateLookup == LookupInit /\ [][LookupNext]_vars

ReportInit == ReportStart /\ DispIdle /\ LookupIdle /\ ParseIdle /\ DashIdle /\ WorkersIdle /\ ExtraIdle
ReportNext ==
    /\ \/ SaveFuelRates
       \/ SaveDailySale
       \/ DailySalesReport
       \/ NextDay
    /\ UNCHANGED <<dispVars, lookupVars, parseVars, dashVars, extraVars>>
SpecReport == ReportInit /\ [][ReportNext]_vars

ParseInit == ParseStart /\ DispIdle /\ LookupIdle /\ ReportIdle /\ DashIdle /\ WorkersIdle /\ ExtraIdle
ParseNext ==
    /\ \/ SkipEmptyRow
       \/ QtyPriceLine
       \/ QtyPriceLineRaises
       \/ LookAheadLine
       \/ LookAheadLineRaises
       \/ ItemsTotalLine
       \/ DescriptionPriceLine
       \/ FallbackLine
       \/ ReturnNormalized
    /\ UNCHANGED <<dispVars, lookupVars, reportVars, dashVars, extraVars>>
SpecParser == ParseInit /\ [][ParseNext]_vars

DashInit == DashStart /\ DispIdle /\ LookupIdle /\ ReportIdle /\ ParseIdle /\ WorkersIdle /\ ExtraIdle
DashNext ==
    /\ \/ RefreshBegin
       \/ RefreshEodRow
       \/ RefreshPosRow
       \/ RefreshReturnRow
       \/ RefreshWrite
       \/ RefreshRaises
       \/ AdminBegin
       \/ AdminBeginRaises
       \/ AdminItem
       \/ AdminRender
    /\ UNCHANGED <<dispVars, lookupVars, reportVars, parseVars, workerVars, extraVars>>
SpecDash == DashInit /\ [][DashNext]_vars

WorkersInit == WorkersStart /\ DispIdle /\ LookupIdle /\ ReportIdle /\ ParseIdle /\ ExtraIdle
WorkersNext ==
    /\ \/ /\ \/ RefreshBegin
             \/ RefreshFetchRaises
             \/ RefreshEodRow
             \/ RefreshPosRow
             \/ RefreshReturnRow
             \/ RefreshWrite
             \/ RefreshRaises
          /\ UNCHANGED workerVars
       \/ ScheduleNext
       \/ StoreChanges
       \/ Worker2Begin
       \/ Worker2Raises
       \/ Worker2Write
       \/ Worker2Next
       \/ CacheGet
    /\ UNCHANGED <<dispVars, lookupVars, reportVars, parseVars, extraVars>>
SpecWorkers == WorkersInit /\ [][WorkersNext]_vars

TillInit ==
    TillStart /\ DispIdle /\ LookupIdle /\ ReportIdle /\ ParseIdle /\ DashIdle /\ WorkersIdle
    /\ FetchIdle /\ LoginIdle
TillNext ==
    /\ \/ TillSaleItem
       \/ TillFinancial
       \/ TillRaises
       \/ TillRender
    /\ UNCHANGED <<dispVars, lookupVars, reportVars, parseVars, dashVars, fetchLoopVars, loginVars>>
SpecTill == TillInit /\ [][TillNext]_vars

\* one fetch loop over a result set that does not change; the loop is
\* straight-line code, so a round that can run does run
FetchInit ==
    FetchStart /\ DispIdle /\ LookupIdle /\ ReportIdle /\ ParseIdle /\ DashIdle /\ WorkersIdle
    /\ TillIdle /\ LoginIdle
FetchNext ==
    FetchPage
    /\ UNCHANGED <<dispVars, lookupVars, reportVars, parseVars, dashVars, tillVars, loginVars>>
SpecFetch == FetchInit /\ [][FetchNext]_vars /\ WF_vars(FetchNext)

\* requests to custom_login_view, served by any of the processes at once
LoginInit ==
    LoginStart /\ DispIdle /\ LookupIdle /\ ReportIdle /\ ParseIdle /\ DashIdle /\ WorkersIdle
    /\ TillIdle /\ FetchIdle
LoginStep(r) ==
    \/ LoginGet(r)
    \/ LoginAuthenticate(r)
    \/ LoginSucceeds(r)
    \/ LoginFails(r)
LoginNext ==
    /\ \E r \in Slots : LoginStep(r)
    /\ UNCHANGED <<dispVars, lookupVars, reportVars, parseVars, dashVars, tillVars, fetchLoopVars>>
SpecLogin == LoginInit /\ [][LoginNext]_vars
\* the same requests one after the other: one process serves them all
LoginSeqNext ==
    /\ LoginStep(1)
    /\ UNCHANGED <<dispVars, lookupVars, reportVars, parseVars, dashVars, tillVars, fetchLoopVars>>
SpecLoginSeq == LoginInit /\ [][LoginSeqNext]_vars

(***************************************************************************)
(* Claims about calc_dispensed, checked under SpecDispensed                *)
(***************************************************************************)
Missing(x) == x = None
NonNumeric(x) == x # None /\ ~ToFloat(x).ok
Numeric(x) == ToFloat(x).ok

\* The reference of the three documented cases, for numeric readings o and c.
DispensedReference(o, c, m) ==
    CASE c >= o -> c - o
      [] c < o /\ 2 * (o - c) > m -> (m - o) + c
      [] c < o /\ 2 * (o - c) <= m -> 0

\* C1: for numeric readings and any max_meter, calc_dispensed returns
\* closing - opening when closing >= opening, (max_meter - opening) + closing
\* when the gap exceeds half of max_meter, and 0 otherwise (a gap of exactly
\* half of max_meter gives 0).
C1_DispensedEqualsReference ==
    (dispensed # Pending /\ Numeric(opening) /\ Numeric(closing)) =>
        dispensed = Return(DispensedReference(ToFloat(opening).v,
                                              ToFloat(closing).v, max_meter))

\* C1 witness: the boundary case, a gap of exactly half of max_meter, gave 0.
C1_Witness ==
    /\ opening = Num(50000)
    /\ closing = Num(0)
    /\ max_meter = MaxMeterDefault
    /\ dispensed = Return(0)

\* C2: calc_dispensed never returns a negative value, for every opening and
\* closing reading and every positive max_meter.
C2_NeverNegative ==
    (dispensed.kind = "return" /\ max_meter > 0) => dispensed.v >= 0

\* What does hold: readings that lie within 0..max_meter give a result >= 0.
DispensedNonNegativeInRange ==
    (/\ dispensed.kind = "return"
     /\ Numeric(opening) /\ Numeric(closing)
     /\ ToFloat(opening).v \in 0..max_meter
     /\ ToFloat(closing).v \in 0..max_meter) => dispensed.v >= 0

\* C3: when opening or closing is None or cannot be converted to a number,
\* calc_dispensed returns 0 and raises nothing.
C3_FailsSoftly ==
    (/\ dispensed # Pending
     /\ \/ Missing(opening) \/ Missing(closing)
        \/ NonNumeric(opening) \/ NonNumeric(closing)) =>
        dispensed = Return(0)

\* C3 witness: a numeric opening with a closing text that float() rejects.
C3_Witness ==
    /\ opening = Num(3)
    /\ closing = BadStr
    /\ dispensed = Return(0)

(***************************************************************************)
(* Claims about get_rate_for_date, checked under SpecRateLookup            *)
(***************************************************************************)
\* The position of a date in time, and the date an ISO text stands for.
Ordinal(dt) == (dt.y * 12 + (dt.m - 1)) * 31 + (dt.d - 1)
DateOfIso(str) == CHOOSE dt \in LookupDates : IsoFormat(dt) = str

\* The fetched rates of a name that start on or before date dt, by position.
InEffectBy(rs, name, dt) ==
    {i \in 1..Len(rs) :
        /\ rs[i].rate_name = name
        /\ Ordinal(DateOfIso(rs[i].start_date)) <= Ordinal(dt)}

\* C4: the lookup returns the value of a rate of the queried name with the
\* greatest start date on or before the report date, and 0 when no rate of
\* that name starts on or before it.
C4_RateInEffect ==
    rate_value # NoRate =>
        LET dt == DateOfIso(report_date_str)
            eligible == InEffectBy(rates, rate_name, dt)
        IN  IF eligible = {} THEN rate_value = 0
            ELSE \E i \in eligible :
                    /\ rate_value = rates[i].value
                    /\ \A j \in eligible :
                          Ordinal(DateOfIso(rates[j].start_date))
                              <= Ordinal(DateOfIso(rates[i].start_date))

\* C4 witness: rates starting 2025-01-01 (20) and 2025-03-01 (22), queried at
\* 2025-02-15, gave 20.
C4_Witness ==
    /\ rates = << RateRow("rate_r22_12", Date(2025, 1, 1), 20),
                  RateRow("rate_r22_12", Date(2025, 3, 1), 22) >>
    /\ report_date_str = IsoFormat(Date(2025, 2, 15))
    /\ rate_value = 20

(***************************************************************************)
(* Claims about the daily report's rates, checked under SpecReport         *)
(***************************************************************************)
DayOfStr(str) == CHOOSE i \in Days : DayStr(i) = str

\* The values of the rates of a name that are in effect on a day: those of
\* the rows with the most recent start date on or before it; 0 when no row
\* of that name starts on or before the day.
InEffectOn(name, day) ==
    LET eligible == {i \in 1..Len(fuel_rates) :
                        /\ fuel_rates[i].rate_name = name
                        /\ DayOfStr(fuel_rates[i].start_date) <= day}
        latest == {i \in eligible :
                      \A j \in eligible : DayOfStr(fuel_rates[j].start_date)
                                              <= DayOfStr(fuel_rates[i].start_date)}
    IN  IF eligible = {} THEN {Num(0)}
        ELSE {Num(ToFloat(fuel_rates[i].value).v) : i \in latest}

\* C5: the rate daily_sales_report shows for a report date, saved or unsaved,
\* is the rate with the most recent start date on or before that date, so a
\* rate that starts later never shows on an earlier report date.
C5_ReportedRateInEffect ==
    response.kind = "report" =>
        \A i \in 1..Len(response.daily_sales) :
            LET row == response.daily_sales[i]
                day == DayOfStr(row["date"].s)
            IN  /\ row["rate_ulp_used"] \in InEffectOn("rate_r22_12", day)
                /\ row["rate_d50_used"] \in InEffectOn("rate_r23_36", day)

(***************************************************************************)
(* Claims about normalize_item_rows                                        *)
(***************************************************************************)
DetailsAt(i) == Strip(OrEmpty(group_rows[i].details))
CodeAt(i) == OrEmpty(group_rows[i].code)
NonEmptyAt(i) == DetailsAt(i) # <<>>
MatchesAt(i) == QtyPriceMatch(DetailsAt(i)).ok
Finished == parse_pc \in {"returned", "raised"}

\* A description line immediately followed by a qty/price line
DescribedPair(i) ==
    /\ i < Len(group_rows)
    /\ NonEmptyAt(i)
    /\ ~MatchesAt(i)
    /\ MatchesAt(i + 1)

\* The entries are appended in row order: the entry row i produced
RECURSIVE EmittedUpTo(_)
EmittedUpTo(i) == IF i = 0 THEN 0 ELSE EmittedUpTo(i - 1) + accounted[i].emitted
EntryOf(i) == normalized[EmittedUpTo(i)]

PairEntry(i) ==
    LET m == QtyPriceMatch(DetailsAt(i + 1))
        qty == FloatOfText(m.g1)
        unit == FloatOfText(m.g3)
    IN  Entry(DetailsAt(i), qty, unit,
              IF m.g4 = <<>> THEN (qty * unit) \div 100 ELSE FloatOfText(m.g4), CodeAt(i))

PairHandled(i) ==
    /\ parse_pc = "returned"
    /\ accounted[i] = [emitted |-> 1, merged |-> 0]
    /\ accounted[i + 1] = [emitted |-> 0, merged |-> 1]
    /\ EntryOf(i) = PairEntry(i)

\* C6: once normalize_item_rows has finished, every description line that is
\* immediately followed by a qty/price line has given exactly one entry for
\* the two lines: name and barcode from the first line, qty and unit price
\* from the second, total the stated total or qty * unit_price.
C6_DescribedPairOneEntry ==
    Finished => \A i \in 1..Len(group_rows) : DescribedPair(i) => PairHandled(i)

\* The same, for the calls that return: this holds.
DescribedPairWhenReturned ==
    parse_pc = "returned" =>
        \A i \in 1..Len(group_rows) : DescribedPair(i) => PairHandled(i)

MergedRows == {i \in 1..Len(group_rows) : accounted[i].merged = 1}
NonEmptyRows == {i \in 1..Len(group_rows) : NonEmptyAt(i)}

RowsAccounted ==
    /\ parse_pc = "returned"
    /\ \A i \in 1..Len(group_rows) :
          IF NonEmptyAt(i)
          THEN accounted[i].emitted + accounted[i].merged = 1
          ELSE accounted[i].emitted = 0 /\ accounted[i].merged = 0
    /\ Len(normalized) = Cardinality(NonEmptyRows) - Cardinality(MergedRows)

\* C7: once normalize_item_rows has finished, every row with non-empty
\* trimmed details has either produced exactly one entry or been merged into
\* exactly one, rows with empty details have done neither, and the number of
\* entries is the number of non-empty rows minus the number of merged pairs.
C7_RowAccounting == Finished => RowsAccounted

\* The same, for the calls that return: this holds.
RowAccountingWhenReturned == parse_pc = "returned" => RowsAccounted

\* A line that none of the rules 1-4 takes
FallsThrough(i) ==
    /\ NonEmptyAt(i)
    /\ ~MatchesAt(i)
    /\ ~(i < Len(group_rows) /\ MatchesAt(i + 1))
    /\ ~ItemsTotalConverts
    /\ ~DescriptionPriceMatch(DetailsAt(i)).ok

FallbackEntries ==
    \A i \in 1..Len(group_rows) :
        FallsThrough(i) =>
            /\ accounted[i].emitted = 1
            /\ EntryOf(i) = Entry(DetailsAt(i), 100, 0, 0, CodeAt(i))

\* C8: normalize_item_rows never raises, whatever text the rows hold, and
\* when it has finished every line that none of the rules 1-4 takes has given
\* the fallback entry (raw text, 1, 0, 0, code).
C8_NeverRaises ==
    /\ parse_pc # "raised"
    /\ Finished => FallbackEntries

\* The fallback entries of the calls that return: this holds.
FallbackWhenReturned == parse_pc = "returned" => FallbackEntries

\* ['BREAD', '1 @ 15.00 15.00'] has given ('BREAD', 1, 15.00, 15.00, 'B1')
ParsedBreadPair ==
    /\ group_rows = <<Sample1, Sample2>>
    /\ parse_pc = "returned"
    /\ normalized = <<Entry(Sample1.details.s, 100, 1500, 1500, Sample1.code.s)>>

\* ['BREAD', '1 @ .'] has raised ValueError
RaisedOnLoneDot ==
    /\ group_rows = <<Sample1, Sample4>>
    /\ parse_pc = "raised"

(***************************************************************************)
(* Claims about the dashboards                                             *)
(***************************************************************************)
\* The amount the row a loop is about to pass adds to the revenue: 0 for a
\* row that is not counted.
EodRowAmount ==
    LET row == eod_data[refresh_i + 1]
    IN  IF EodReadable(row) THEN ToFloat(row.total).v ELSE 0
PosRowAmount ==
    LET row == all_pos[refresh_i - Len(eod_data) + 1]
    IN  IF PosCounted(row) THEN PosAmount(row) ELSE 0

SplitAddsUp ==
    /\ totals.revenue = totals.fuel + totals.nonfuel
    /\ agg.total_revenue = agg.fuel_total + agg.nonfuel_total
    /\ context # None => context.total_revenue = context.fuel_total + context.nonfuel_total

SplitStep ==
    /\ InEodLoop /\ refresh_i' = refresh_i + 1 =>
          /\ totals'.revenue - totals.revenue = EodRowAmount
          /\ totals'.fuel - totals.fuel = EodRowAmount
          /\ totals'.nonfuel = totals.nonfuel
    /\ InPosLoop /\ refresh_i' = refresh_i + 1 =>
          /\ totals'.revenue - totals.revenue = PosRowAmount
          /\ totals'.nonfuel - totals.nonfuel = PosRowAmount
          /\ totals'.fuel = totals.fuel
    /\ InReturnsLoop \/ LoopsDone =>
          /\ totals'.revenue = totals.revenue
          /\ totals'.fuel = totals.fuel
          /\ totals'.nonfuel = totals.nonfuel
    /\ admin_pc = "running" /\ admin_i' = admin_i + 1 =>
          LET amount == ItemAmount(all_data[admin_i + 1])
          IN  /\ agg'.total_revenue - agg.total_revenue = amount
              /\ \/ /\ agg'.fuel_total - agg.fuel_total = amount
                    /\ agg'.nonfuel_total = agg.nonfuel_total
                 \/ /\ agg'.nonfuel_total - agg.nonfuel_total = amount
                    /\ agg'.fuel_total = agg.fuel_total

SnapshotSplitAddsUp ==
    cache # None =>
        cache.value.total_revenue = cache.value.fuel_total + cache.value.nonfuel_total

\* The slip a line item belongs to: its slip_id, or the row itself when it
\* has none
SlipOf(item) ==
    IF item.slip_id = None THEN <<"row", item.id.v>> ELSE <<"slip", item.slip_id.v>>
SlipsPassed == {SlipOf(all_data[i]) : i \in 1..admin_i}

\* C10: total_transactions of admin_dashboard is the number of distinct slips
\* among the rows aggregated, a row without slip_id being a slip of its own.
C10_TransactionsAreDistinctSlips ==
    /\ admin_pc \in {"running", "done"} => agg.total_transactions = Cardinality(SlipsPassed)
    /\ admin_pc = "done" => context.total_transactions = Cardinality(SlipsPassed)

\* What the code counts: the distinct values of (slip_id or id).  This holds.
TransactionsAreDistinctValues ==
    admin_pc \in {"running", "done"} =>
        agg.total_transactions = Cardinality({SlipIdOf(all_data[i]) : i \in 1..admin_i})

\* The row of slip 2 and the row without slip_id whose id is 2 have been
\* counted as one transaction.
CountedTwoSlipsAsOne ==
    /\ admin_pc = "done"
    /\ all_data = <<Item1, Item2>>
    /\ context.total_transactions = 1

(***************************************************************************)
(* C11: the snapshot's total_transactions counts distinct receipts         *)
(***************************************************************************)
\* the receipt a POS row belongs to (the rows of one receipt share opref)
ReceiptOf(row) == row.opref
\* the receipts of the rows of all_pos that the POS loop counts
ReceiptsCounted ==
    { ReceiptOf(all_pos[i]) : i \in { j \in 1..Len(all_pos) : PosCounted(all_pos[j]) } }
\* the fuel rows that the EOD loop counts, one transaction each
EodRowsCounted == { i \in 1..Len(eod_data) : EodReadable(eod_data[i]) }

\* C11: in the snapshot written by refresh_dashboard_cache,
\* total_transactions is the number of fuel transactions plus the number of
\* distinct receipt identifiers among the counted POS rows, not the number
\* of raw rows.
C11_TransactionsAreDistinctReceipts ==
    refresh_pc = "done" =>
        cache.value.total_transactions =
            Cardinality(EodRowsCounted) + Cardinality(ReceiptsCounted)
\* total_transactions is the number of rows counted by the two loops
TransactionsAreRowsCounted ==
    refresh_pc = "done" =>
        cache.value.total_transactions =
            Cardinality(EodRowsCounted)
            + Cardinality({ j \in 1..Len(all_pos) : PosCounted(all_pos[j]) })

(***************************************************************************)
(* C12: the returns of the cached snapshot                                 *)
(***************************************************************************)
HasReturnKeyword(text) ==
    \/ Contains(Lower(text), <<"r", "e", "t", "u", "r", "n">>)
    \/ Contains(Lower(text), <<"r", "e", "f", "u", "n", "d">>)
\* the first number embedded in a line, 0 when it has none
FirstNumberOrZero(text) ==
    LET nums == FindAllNumbers(Lower(text), 1)
    IN  IF nums = <<>> THEN 0 ELSE FloatOfNumber(nums[1])
\* what a line of posaud_data adds to the returns
ReturnLineAdds(row) ==
    LET text == OrEmpty(row.details)
    IN  IF HasReturnKeyword(text) THEN FirstNumberOrZero(text) ELSE 0
Distance(x, y) == IF x >= y THEN x - y ELSE y - x

\* the snapshot as written: returns are not negative, they are the sum of
\* what the lines add, and the net revenue is the rounded difference of the
\* sums, which is within a cent (10 thousandths) of the difference of the
\* rounded fields
ReturnsInSnapshot ==
    refresh_pc = "done" =>
        /\ cache.value.total_returns >= 0
        /\ totals.returns = Sum([i \in 1..Len(posaud_data) |-> ReturnLineAdds(posaud_data[i])])
        /\ cache.value.total_returns = Round2(totals.returns)
        /\ cache.value.total_revenue = Round2(totals.revenue)
        /\ cache.value.nett_revenue = Round2(totals.revenue - totals.returns)
        /\ Distance(cache.value.nett_revenue,
                    cache.value.total_revenue - cache.value.total_returns) <= 10
\* a step of the returns loop adds the first number of a return or refund
\* line, adds 0 for any other line, and goes on
ReturnStep ==
    InReturnsLoop /\ refresh_i' = refresh_i + 1 =>
        /\ totals'.returns = totals.returns
              + ReturnLineAdds(posaud_data[refresh_i - Len(eod_data) - Len(all_pos) + 1])
        /\ refresh_pc' = "running"

\* C12 (as amended): in the cached snapshot total_returns >= 0 and
\* nett_revenue = round(revenue - returns, 2) of the unrounded sums, so that
\* it is within 0.01 of total_revenue - total_returns; a line containing
\* 'return' or 'refund' adds the first number embedded in it, a return line
\* with no number or a line without either keyword adds 0 and raises nothing.
C12_ReturnsInSnapshot == []ReturnsInSnapshot /\ [][ReturnStep]_vars
\* a snapshot with returns, from lines with and without a number to add
C12_Witness ==
    /\ refresh_pc = "done"
    /\ cache.value.total_returns > 0
    /\ \E i \in 1..Len(posaud_data) :
          HasReturnKeyword(OrEmpty(posaud_data[i].details)) /\ ReturnLineAdds(posaud_data[i]) > 0
\* C12 (as stated): in the cached snapshot total_returns >= 0 and
\* nett_revenue = total_revenue - total_returns.
C12_NettIsRevenueLessReturns ==
    refresh_pc = "done" =>
        /\ cache.value.total_returns >= 0
        /\ cache.value.nett_revenue = cache.value.total_revenue - cache.value.total_returns

(***************************************************************************)
(* C13: the returns of admin_dashboard                                     *)
(***************************************************************************)
\* the store holds a return or refund line with a positive amount that is
\* dated in the window from_date..to_date of the request
ReturnInWindow ==
    \E i \in 1..Len(tbl_posaud) :
        LET row == tbl_posaud[i]
        IN  /\ HasReturnKeyword(OrEmpty(row.details))
            /\ FirstNumberOrZero(OrEmpty(row.details)) > 0
            /\ StrpTime(row.trandate).ok
            /\ DateBetween(from_date, StrpTime(row.trandate).v, to_date)

\* C13: whenever the date window of admin_dashboard contains a return with
\* a positive amount, the page has total_returns > 0 and
\* nett_revenue < total_revenue.
C13_AdminSubtractsReturns ==
    admin_pc = "done" /\ ReturnInWindow =>
        /\ context.total_returns > 0
        /\ context.nett_revenue < context.total_revenue
\* admin_dashboard never adds to total_returns
AdminReturnsAreZero ==
    admin_pc = "done" => context.total_returns = 0 /\ context.nett_revenue = context.total_revenue

(***************************************************************************)
(* C14: the day, week and month buckets                                    *)
(***************************************************************************)
\* the fuel and POS rows of the store dated from lo to hi and not after
\* today: the sum of the amounts of those a refresh would count
RowsTotal(lo, hi) ==
    LET InBucket(dt) == DateBetween(lo, dt, hi) /\ ToOrdinal(dt) <= ToOrdinal(dash_today)
        pos == tbl_pos2_stock_data \o tbl_pos3_stock_data
    IN  Sum([i \in 1..Len(tbl_eod_data) |->
                IF EodReadable(tbl_eod_data[i]) /\ InBucket(StrpTime(tbl_eod_data[i].s_date).v)
                THEN ToFloat(tbl_eod_data[i].total).v ELSE 0])
        + Sum([i \in 1..Len(pos) |->
                IF PosCounted(pos[i]) /\ InBucket(StrpTime(pos[i].trandate).v)
                THEN PosAmount(pos[i]) ELSE 0])
\* the slip items of the terminals of the store dated from lo to hi and not
\* after today: the sum of their amounts
ItemsTotal(lo, hi) ==
    Sum([i \in 1..Len(tbl_slip_items) |->
            LET item == tbl_slip_items[i]
            IN  IF /\ item.termnum \in POS_TERMINALS
                   /\ ~Falsy(item.trandate)
                   /\ DateBetween(lo, DateOfText(item.trandate.s), hi)
                   /\ ToOrdinal(DateOfText(item.trandate.s)) <= ToOrdinal(dash_today)
                THEN ItemAmount(item) ELSE 0])
DefaultFilters == Falsy(from_filter) /\ Falsy(to_filter)

\* the day and the month totals are those of the rows of the store
DayAndMonthBuckets ==
    /\ refresh_pc = "done" =>
          /\ cache.value.today_sale = Round2(RowsTotal(dash_today, dash_today))
          /\ cache.value.month_sale = Round2(RowsTotal(month_start, month_end))
    /\ admin_pc = "done" /\ DefaultFilters =>
          /\ context.today_sale = ItemsTotal(dash_today, dash_today)
          /\ context.month_sale = ItemsTotal(month_start, month_end)
\* the week total is that of the rows of the store dated in the Monday to
\* Sunday week of today
WeekBucket ==
    /\ refresh_pc = "done" => cache.value.week_sale = Round2(RowsTotal(week_start, week_end))
    /\ admin_pc = "done" /\ DefaultFilters => context.week_sale = ItemsTotal(week_start, week_end)
\* the week total is that of the rows dated in the part of the week that
\* lies in the month of today
WeekBucketWithinMonth ==
    LET first == IF ToOrdinal(week_start) >= ToOrdinal(month_start) THEN week_start ELSE month_start
    IN  /\ refresh_pc = "done" => cache.value.week_sale = Round2(RowsTotal(first, week_end))
        /\ admin_pc = "done" /\ DefaultFilters => context.week_sale = ItemsTotal(first, week_end)

\* C14: for every today, week_sale of refresh_dashboard_cache and of
\* admin_dashboard with default filters is the sum of the amounts of exactly
\* the rows of the row source dated in the Monday-to-Sunday week containing
\* today, wherever the month begins; a row dated today is in the day, week
\* and month totals at once.
C14_WeekBucket == DayAndMonthBuckets /\ WeekBucket

(***************************************************************************)
(* C15: a refresh is idempotent                                            *)
(***************************************************************************)
\* a run that writes, writes the dictionary of a run over the rows it
\* fetched: nothing else enters it, whatever ran before
RunWritesRunDashboard ==
    refresh_pc = "running" /\ refresh_pc' = "done" =>
        /\ cache' # None
        /\ cache'.value = RunDashboard(eod_data, pos2_data, pos3_data, posaud_data)
\* a run fetches the rows the store holds when it starts
RunFetchesStore ==
    refresh_pc = "idle" /\ refresh_pc' = "running" =>
        /\ eod_data' = fetch_eod_data(IsoFormat(month_start), IsoFormat(dash_today))
        /\ pos2_data' = fetch_pos2_stock_data(IsoFormat(month_start), IsoFormat(dash_today))
        /\ pos3_data' = fetch_pos3_stock_data(IsoFormat(month_start), IsoFormat(dash_today))
        /\ posaud_data' = fetch_posaud_sales(IsoFormat(month_start))

\* C15: the snapshot a run of refresh_dashboard_cache writes is determined by
\* the rows it fetched and by today: two runs over identical rows with the
\* same today write identical snapshots, and runs before it, over other
\* rows, leave nothing that changes its totals.
C15_RefreshIsIdempotent == [][RunWritesRunDashboard /\ RunFetchesStore]_vars
\* the first worker has written after a run of its own had written another
\* snapshot, which a reader got, over other rows
C15_Witness ==
    /\ refresh_pc = "done"
    /\ worker2_dashboard = None
    /\ rows_changed
    /\ seen \notin {Unread, None}
    /\ cache.value # seen
    /\ cache.value = RunDashboard(eod_data, pos2_data, pos3_data, posaud_data)

(***************************************************************************)
(* C16: a refresh does not abort on the content of a row                   *)
(***************************************************************************)
\* C16: whatever the rows hold, refresh_dashboard_cache runs to completion:
\* no run ends with an exception raised on a row's content.
C16_NeverAbortsOnRowContent == refresh_pc # "raised"
\* the rows whose amount does not convert are the only ones that abort a run
AbortsOnlyOnAmount ==
    refresh_pc = "raised" => \E i \in 1..Len(eod_data) : ~ToFloat(eod_data[i].total).ok

(***************************************************************************)
(* C17: a failure of a fetch                                               *)
(***************************************************************************)
\* C17: a failure of a fetch is taken as an empty source: the run goes on
\* and writes a snapshot, it never ends at the fetch.
C17_FetchFailureIsEmptySource == refresh_pc # "unavailable"

(***************************************************************************)
(* C18: concurrent refreshes and readers                                   *)
(***************************************************************************)
\* the dictionary of one run over the rows of a store
DashboardOfStore(store) ==
    LET a == IsoFormat(month_start)
        b == IsoFormat(dash_today)
    IN  RunDashboard(OrderRows(InRange(store[1], "s_date", a, b), "s_date", "s_time"),
                     Reverse(OrderRows(InRange(store[2], "trandate", a, b), "trandate", "trantime")),
                     Reverse(OrderRows(InRange(store[3], "trandate", a, b), "trandate", "trantime")),
                     Reverse(OrderRows(InRange(store[4], "trandate", a, None), "trandate", "trantime")))
\* a value is a whole snapshot of one run over rows the store has held
IsSnapshotOfOneRun(value) ==
    \E store \in WorkerStores :
        /\ TotalsConvert(InRange(store[1], "s_date", IsoFormat(month_start), IsoFormat(dash_today)))
        /\ value = DashboardOfStore(store)
\* what is in the cache and what a reader got is a snapshot of one run
ReadsAreSnapshots ==
    /\ cache # None => IsSnapshotOfOneRun(cache.value)
    /\ seen \notin {Unread, None} => IsSnapshotOfOneRun(seen)
\* while the rows have not changed, it is the snapshot of a single run over
\* them
UnchangedRowsGiveSingleRun ==
    LET converts == TotalsConvert(fetch_eod_data(IsoFormat(month_start), IsoFormat(dash_today)))
    IN  ~rows_changed =>
            /\ cache # None => converts /\ cache.value = StoreDashboard
            /\ seen \notin {Unread, None} => converts /\ seen = StoreDashboard

\* C18: under any interleaving of refresh runs and readers, every value read
\* for 'dashboard_cache' is one complete snapshot computed by a single run,
\* and with an unchanged row set and the same today the cached snapshot is
\* the one a single run produces.
C18_ReadsAreWholeSnapshots == ReadsAreSnapshots /\ UnchangedRowsGiveSingleRun
\* a reader got the snapshot the second worker wrote while the first worker
\* was in its loops over other rows
C18_Witness ==
    /\ refresh_pc = "running"
    /\ refresh_i > 0
    /\ worker2_pc = "done"
    /\ seen = worker2_dashboard
    /\ TotalsConvert(eod_data)
    /\ seen # RunDashboard(eod_data, pos2_data, pos3_data, posaud_data)

(***************************************************************************)
(* C19: save_daily_sale, the last write wins                               *)
(***************************************************************************)
\* the step is a save of the body data that the store took
SavedBody(data) ==
    /\ DictGet(data, "date", None) # None
    /\ daily_sales_reports' = Upsert(daily_sales_reports, BuildPayload(data))
    /\ response' = Success
RowsOfDate(table, day) == {r \in table : r["report_date"] = day}
\* a value was given for the column: the key is in the body and not null
Provided(data, c) == DictGet(data, SpecOfColumn(c)[2], None) # None
\* after a save of data the date has one row; a column given in the body
\* has the value given, a column omitted or null has the default of the
\* handler (0, empty text), or NULL in a row that the save inserted
LastWriteWins(data) ==
    LET before == RowsOfDate(daily_sales_reports, data["date"])
        after == RowsOfDate(daily_sales_reports', data["date"])
    IN  /\ Cardinality(after) = 1
        /\ \A r \in after : \A c \in Columns :
              IF Provided(data, c) THEN r[c] = data[SpecOfColumn(c)[2]]
              ELSE \/ r[c] = SpecOfColumn(c)[3]
                   \/ before = {} /\ r[c] = None
\* the same, a null column keeping what the row had before the save
NullKeepsEarlierValue(data) ==
    LET before == RowsOfDate(daily_sales_reports, data["date"])
        after == RowsOfDate(daily_sales_reports', data["date"])
    IN  /\ Cardinality(after) = 1
        /\ \A r \in after : \A c \in Columns :
              LET key == SpecOfColumn(c)[2]
              IN  CASE Provided(data, c) -> r[c] = data[key]
                    [] key \notin DOMAIN data -> r[c] = SpecOfColumn(c)[3]
                    [] OTHER -> IF before = {} THEN r[c] = None
                                ELSE \A o \in before : r[c] = o[c]

\* C19: after any save_daily_sale there is at most one row for the report
\* date and every field of it has the value written by that save, the most
\* recent one: the value provided, or the default (0, empty text) when the
\* field is omitted or null; no field value of an earlier save survives.
C19_LastWriteWins == [][\A data \in SaleBodies : SavedBody(data) => LastWriteWins(data)]_vars
\* what the store does: one row per date, and a null field keeps the value
\* of the earlier save
OneRowAndNullKeeps ==
    [][\A data \in SaleBodies : SavedBody(data) => NullKeepsEarlierValue(data)]_vars

(***************************************************************************)
(* C20: the fuel side of a saved report                                    *)
(***************************************************************************)
\* calc_dispensed(opening, closing) of two columns of a row, None when it
\* raises
DispensedOf(r, open_col, close_col) ==
    LET result == calc_dispensed(r[open_col], r[close_col], MaxMeterDefault)
    IN  IF result.kind = "return" THEN Num(result.v) ELSE None
\* the number in a column, 0 for NULL
NumberIn(r, c) == IF ToFloat(r[c]).ok THEN ToFloat(r[c]).v ELSE 0
FuelSideHolds(r) ==
    /\ r["dispensed_ulp_95"] = DispensedOf(r, "unleaded_95_opening", "unleaded_95_closing")
    /\ r["dispensed_d50"] = DispensedOf(r, "diesel_50_opening", "diesel_50_closing")
    /\ NumberIn(r, "pumped_theoretical") =
          NumberIn(r, "dispensed_ulp_95") * NumberIn(r, "rate_ulp_95_used")
          + NumberIn(r, "dispensed_d50") * NumberIn(r, "rate_d50_used")
    /\ NumberIn(r, "variance_pos") = NumberIn(r, "actual_pos") - NumberIn(r, "pumped_theoretical")

\* C20: on every row that save_daily_sale has persisted, the dispensed
\* litres of each grade are calc_dispensed(opening, closing) of the row's
\* own readings, pumped_theoretical is the sum over the two grades of the
\* litres times the rate used, and variance_pos = actual_pos -
\* pumped_theoretical.
C20_FuelSideHolds == \A r \in daily_sales_reports : FuelSideHolds(r)
\* the fuel columns of a row are those of a body sent, as they were sent
FuelSideIsAsSent ==
    \A r \in daily_sales_reports :
        \E data \in SaleBodies :
            \A c \in {"unleaded_95_opening", "unleaded_95_closing", "diesel_50_opening",
                      "diesel_50_closing", "dispensed_ulp_95", "dispensed_d50",
                      "pumped_theoretical", "variance_pos", "actual_pos"} :
                r[c] = DictGet(data, SpecOfColumn(c)[2], SpecOfColumn(c)[3])

(***************************************************************************)
(* C21: the takings side of a saved report                                 *)
(***************************************************************************)
\* actual_sales = cash + cards and grand_total = actual_sales - expenses
TakingsSideHolds(r) ==
    /\ NumberIn(r, "actual_sales") = NumberIn(r, "cash") + NumberIn(r, "cards")
    /\ NumberIn(r, "grand_total") = NumberIn(r, "actual_sales") - NumberIn(r, "expenses")

\* C21: on every row that save_daily_sale has persisted, actual_sales =
\* cash + cards and grand_total = actual_sales - expenses (the two equations
\* of the claim that are over columns of the row; over_short is compared
\* with an expected total that no column holds).
C21_TakingsSideHolds == \A r \in daily_sales_reports : TakingsSideHolds(r)
\* the takings columns of a row are those of bodies sent, each column as
\* some body sent it or as the handler defaults it
TakingsSideIsAsSent ==
    \A r \in daily_sales_reports :
        \A c \in {"cash", "cards", "expenses", "actual_sales", "grand_total", "over_short"} :
            \/ r[c] = None
            \/ \E data \in SaleBodies : r[c] = DictGet(data, SpecOfColumn(c)[2], SpecOfColumn(c)[3])

(***************************************************************************)
(* C22: staff attribution of the fuel rows                                 *)
(***************************************************************************)
\* the sum of a field ("sales", "transactions") over the buckets named
RECURSIVE StaffSum(_, _, _)
StaffSum(perf, names, field) ==
    IF names = {} THEN 0
    ELSE LET a == CHOOSE n \in names : TRUE
         IN  perf[a][field] + StaffSum(perf, names \ {a}, field)
StaffSales(perf) == StaffSum(perf, DOMAIN perf, "sales")
StaffTransactions(perf) == StaffSum(perf, DOMAIN perf, "transactions")
MappedNames == {TAGID_ATTENDANT_MAP[i][2] : i \in 1..Len(TAGID_ATTENDANT_MAP)}

\* C22: in the snapshot of refresh_dashboard_cache every bucket of
\* staff_performance is a mapped name or 'Unknown', the staff sales sum to
\* the fuel total (before rounding) and the staff transaction counts sum to
\* the number of counted fuel rows.
C22_StaffSumsToFuel ==
    refresh_pc = "done" =>
        /\ DOMAIN cache.value.staff_performance \subseteq MappedNames \cup {"Unknown"}
        /\ StaffSales(cache.value.staff_performance) = totals.fuel
        /\ StaffTransactions(cache.value.staff_performance) = Cardinality(EodRowsCounted)
\* the buckets hold the counted fuel rows whose tag id is text or missing
StaffSumsToAttributedRows ==
    refresh_pc = "done" =>
        LET attributed == {i \in 1..Len(eod_data) : EodAttributed(eod_data[i])}
        IN  /\ DOMAIN cache.value.staff_performance \subseteq MappedNames \cup {"Unknown"}
            /\ StaffSales(cache.value.staff_performance) =
                  Sum([i \in 1..Len(eod_data) |->
                          IF i \in attributed THEN ToFloat(eod_data[i].total).v ELSE 0])
            /\ StaffTransactions(cache.value.staff_performance) = Cardinality(attributed)

(***************************************************************************)
(* C23: the financial adjustments of till_slip_analysis_dynamic            *)
(***************************************************************************)
FinKinds == {"returns", "payouts", "receipts", "payments"}
SlipAmounts == FinKinds \cup {"amount_paid", "vat"}
\* the adjustment the loop stands at
FinAtHand == all_fin[till_i - Len(all_sales) + 1]
\* the kind of an adjustment as the claim names it: one of the four, in any
\* letter case, or "" for any other
KindOf(fin) ==
    IF fin.fin_type.t = "str" THEN FinField(Upper(fin.fin_type.s)) ELSE ""
AmountOf(fin) == IF fin.amount = None THEN 0 ELSE ToFloat(fin.amount).v
\* the step leaves the adjustment at hand behind without an exception
FinPassed == InFinLoop /\ till_i' = till_i + 1
\* an adjustment of one of the four kinds adds its amount to the total of
\* that kind and to that field of its slip, and to nothing else
KnownKindAddsToOne ==
    LET fin == FinAtHand
        kind == KindOf(fin)
        key == SlipKey(fin, "fin_")
    IN  FinPassed /\ kind # "" =>
            /\ till_totals' = [till_totals EXCEPT ![kind] = @ + AmountOf(fin)]
            /\ slips'[key] = [SlipAt(slips, key) EXCEPT ![kind] = @ + AmountOf(fin)]
            /\ \A k \in DOMAIN slips \ {key} : slips'[k] = slips[k]
\* an adjustment of any other kind changes no total and no slip amount
OtherKindChangesNothing ==
    FinPassed /\ KindOf(FinAtHand) = "" =>
        /\ till_totals' = till_totals
        /\ \A k \in DOMAIN slips : slips'[k] = slips[k]
        /\ \A k \in DOMAIN slips' \ DOMAIN slips : \A f \in SlipAmounts : slips'[k][f] = 0
\* no adjustment ends the request with an exception
FinNeverRaises == InFinLoop => till_pc' # "raised"
\* nett_takings is what was paid less the four totals
NettTakings ==
    till_pc = "done" =>
        till_context.nett_takings =
            till_context.total_amount_paid - till_context.total_returns
            - till_context.total_payouts - till_context.total_receipts
            - till_context.total_payments

\* C23: an adjustment whose kind is RETURN, PAYOUT, RECEIPT or PAYMENT adds
\* its amount to exactly the one total of that kind and to that field of its
\* slip; an adjustment of any other kind changes none of the four totals,
\* nett_takings or any slip amount, and no adjustment raises an error.
C23_AdjustmentsByKind ==
    []NettTakings /\ [][KnownKindAddsToOne /\ OtherKindChangesNothing /\ FinNeverRaises]_vars
\* the same for the adjustments the loop gets past: those whose amount is a
\* number or missing and whose kind is a text or missing
AdjustmentsByKindWhenPassed ==
    []NettTakings /\ [][KnownKindAddsToOne /\ OtherKindChangesNothing]_vars
\* the adjustments that raise are those whose amount or kind does not convert
RaisesOnlyOnConversion ==
    [][InFinLoop /\ till_pc' = "raised" => ~FinConverts(FinAtHand)]_vars

(***************************************************************************)
(* C24: void rows of POS2 and POS3 leave the snapshot alone                *)
(***************************************************************************)
\* the text holds the letters v, o, i, d in a row, each in either case
HasVoidMarker(text) ==
    \E i \in 1..(Len(text) - 3) :
        /\ text[i] \in {"V", "v"}
        /\ text[i + 1] \in {"O", "o"}
        /\ text[i + 2] \in {"I", "i"}
        /\ text[i + 3] \in {"D", "d"}
IsVoidRow(row) == row.details.t = "str" /\ HasVoidMarker(row.details.s)
WithoutVoidRows(rows) == SelectSeq(rows, LAMBDA row : ~IsVoidRow(row))
\* the snapshot of a run is the one the same run builds from the rows
\* without the void rows
VoidRowsLeaveSnapshot ==
    refresh_pc = "done" =>
        cache.value = RunDashboard(eod_data, WithoutVoidRows(pos2_data),
                                   WithoutVoidRows(pos3_data), posaud_data)
\* a void row leaves the running totals and the trend figures as they were
VoidRowStep ==
    InPosLoop /\ IsVoidRow(all_pos[refresh_i - Len(eod_data) + 1]) =>
        UNCHANGED <<totals, daily_trends, staff_perf>>

\* C24: a POS2 or POS3 row whose detail text contains a void marker, in any
\* letter case, changes nothing in the snapshot: nonfuel_total,
\* total_revenue, total_transactions, the day, week and month totals, the
\* trend series, pos2_total_paid and pos3_total_paid are what they are
\* without the row.
C24_VoidRowsChangeNothing == []VoidRowsLeaveSnapshot /\ [][VoidRowStep]_vars
\* a run that met void rows, one in mixed case, has written its snapshot
C24_Witness ==
    /\ refresh_pc = "done"
    /\ \E i \in 1..Len(all_pos) :
           /\ IsVoidRow(all_pos[i])
           /\ ~Contains(all_pos[i].details.s, <<"V", "O", "I", "D">>)
           /\ PosAmount(all_pos[i]) > 0
    /\ \E i \in 1..Len(all_pos) : PosCounted(all_pos[i])

(***************************************************************************)
(* C25: the revenue trend of the snapshot                                  *)
(***************************************************************************)
\* the amounts that the counted rows dated d add, fuel rows taken by Fuel
TrendAmounts(d, Fuel(_)) ==
    Sum([i \in 1..Len(eod_data) |->
            IF Fuel(eod_data[i]) /\ eod_data[i].s_date.s = d
            THEN ToFloat(eod_data[i].total).v ELSE 0])
    + Sum([i \in 1..Len(all_pos) |->
              IF PosCounted(all_pos[i]) /\ all_pos[i].trandate.s = d
              THEN PosAmount(all_pos[i]) ELSE 0])
TrendDates(Fuel(_)) ==
    { eod_data[i].s_date.s : i \in { j \in 1..Len(eod_data) : Fuel(eod_data[j]) } }
    \cup { all_pos[i].trandate.s : i \in { j \in 1..Len(all_pos) : PosCounted(all_pos[j]) } }
TrendIsOf(Fuel(_)) ==
    refresh_pc = "done" =>
        LET labels == cache.value.revenue_trend_labels
            data == cache.value.revenue_trend_data
        IN  /\ { labels[i] : i \in 1..Len(labels) } = TrendDates(Fuel)
            /\ \A i \in 1..(Len(labels) - 1) :
                   ToOrdinal(DateOfText(labels[i])) < ToOrdinal(DateOfText(labels[i + 1]))
            /\ Len(data) = Len(labels)
            /\ \A i \in 1..Len(labels) : data[i] = TrendAmounts(labels[i], Fuel)

\* C25: revenue_trend_labels holds each date that has at least one counted
\* row exactly once, in strictly ascending date order; revenue_trend_data
\* has the same length, and data[i] is the sum of the amounts of the counted
\* rows dated labels[i].
C25_TrendOfCountedRows == TrendIsOf(EodReadable)
\* the trend is that of the counted POS rows and of the counted fuel rows
\* whose tag id is text or missing
TrendOfAttributedRows == TrendIsOf(EodAttributed)

(***************************************************************************)
(* C26: the fetch loops end and return every row once                      *)
(***************************************************************************)
\* the loop has returned after floor(N / 1000) + 1 page requests with every
\* row of the result set, once each, in the order of the result set
ReturnsEveryRowOnce ==
    fetch_pc = "returned" =>
        /\ page_requests = (Len(result_set) \div 1000) + 1
        /\ fetch_all_data = result_set

\* C26: against a result set of N rows that does not change, a fetch loop
\* (page size 1000, stop at the first page shorter than 1000) terminates
\* after floor(N / 1000) + 1 page requests and returns every row exactly once
\* in source order, also when N is 0 or an exact multiple of 1000.
C26_FetchLoopTerminates == []ReturnsEveryRowOnce /\ <>(fetch_pc = "returned")
\* a loop over exactly two full pages has returned
C26_Witness ==
    /\ fetch_pc = "returned"
    /\ Len(result_set) = 2000
    /\ page_requests = 3
    /\ Len(fetch_all_data) = 2000

(***************************************************************************)
(* C27: rule 3 of normalize_item_rows, the "ITEMS 1 TOTAL" line            *)
(***************************************************************************)
\* the pass of the loop stands at a line with text that neither rule 1 nor
\* rule 2 handles
LeftToRule3 ==
    /\ InLoop
    /\ Details # <<>>
    /\ ~QtyPriceMatch(Details).ok
    /\ ~LookAheadMatches
\* row i of the group starts with "ITEMS 1 TOTAL"
StartsItemsTotal(i) == StartsWith(OrEmpty(group_rows[i].details), ItemsTotalPrefix)
StartsItemsTotalAnyCase(i) ==
    LET s == OrEmpty(group_rows[i].details)
    IN  /\ Len(s) >= Len(ItemsTotalPrefix)
        /\ \A k \in 1..Len(ItemsTotalPrefix) :
               UpperChar(s[k]) = ItemsTotalPrefix[k]
\* the last token of row i is a number
LastTokenIsNumber(i) == IsFloatText(LastToken(group_rows[i].details.s))
TotalOf(i) == FloatOfText(LastToken(group_rows[i].details.s))
\* the pass emits (text, 1, t, t, code) for the line and goes to the next
EmitsWithTotal(t) ==
    /\ normalized' = Append(normalized, Entry(Details, 100, t, t, Code))
    /\ index' = index + 1
\* the pass emits what rule 4 or the fallback emit
EmitsByRule4Or5 ==
    /\ parse_pc' # "raised"
    /\ index' = index + 1
    /\ LET pm == DescriptionPriceMatch(Details)
       IN  normalized' = Append(normalized,
                                IF pm.ok
                                THEN Entry(pm.g1, 100, FloatOfText(pm.g2), FloatOfText(pm.g2), Code)
                                ELSE Entry(Details, 100, 0, 0, Code))
Rule3AnyLine ==
    LET lines == { i \in 1..Len(group_rows) : StartsItemsTotal(i) }
        numbered == { i \in lines : LastTokenIsNumber(i) }
    IN  LeftToRule3 /\ lines # {} =>
            IF numbered # {} THEN \E i \in numbered : EmitsWithTotal(TotalOf(i))
            ELSE EmitsByRule4Or5
Rule3FirstLine ==
    LET lines == { i \in 1..Len(group_rows) : StartsItemsTotalAnyCase(i) }
        first == CHOOSE i \in lines : \A j \in lines : i <= j
    IN  LeftToRule3 /\ lines # {} =>
            IF LastTokenIsNumber(first) THEN EmitsWithTotal(TotalOf(first))
            ELSE EmitsByRule4Or5

\* C27: in a group that contains a line starting with "ITEMS 1 TOTAL" whose
\* last token is a number t, every non-empty line that neither rule 1 nor
\* rule 2 handles is emitted as (its text, 1, t, t, code), in preference to
\* rule 4 and the fallback; when the last token is not a number, rules 4 and
\* 5 apply and nothing is raised.
C27_ItemsTotalRule == [][Rule3AnyLine]_vars
\* C27, amended: the line that counts is the first line of the group that
\* starts with "ITEMS 1 TOTAL" in any letter case: when its last token is a
\* number t the lines left to rule 3 are emitted as (text, 1, t, t, code),
\* when it is not, rules 4 and 5 apply and nothing is raised, whatever later
\* lines of that kind hold.
C27_FirstItemsTotalRule == [][Rule3FirstLine]_vars
\* 'ITEMS 1 TOTAL 15.00', 'Items 1 total', 'BREAD': three entries of 15.00
C27_Witness ==
    /\ parse_pc = "returned"
    /\ group_rows = <<Sample9, Sample10, Sample1>>
    /\ Len(normalized) = 3
    /\ normalized[3] = Entry(<<"B", "R", "E", "A", "D">>, 100, 1500, 1500, <<"B", "1">>)

(***************************************************************************)
(* C28: the lock after five failed attempts, requests one after the other  *)
(***************************************************************************)
\* a locked account has at least 5 failed attempts, an unlocked one at most 4
LockedFromFive ==
    \A e \in DOMAIN users :
        /\ users[e].is_locked => users[e].failed_attempts >= 5
        /\ ~users[e].is_locked => users[e].failed_attempts <= 4
\* a request has just ended for process r
RequestEnds(r) == login_pc[r] # "idle" /\ login_pc'[r] = "idle"
\* the lock is set by the failed attempt that is the 5th since the last login
\* and by no other
LockedOnFifth ==
    \A e \in DOMAIN users :
        users'[e].is_locked # users[e].is_locked =>
            /\ users'[e].is_locked
            /\ wrong_checked[e] = 5
            /\ \E r \in DOMAIN login_pc : login_pc[r] = "failure" /\ RequestEnds(r)
FifthLocks ==
    \A r \in DOMAIN login_pc :
        login_pc[r] = "failure" /\ RequestEnds(r) /\ wrong_checked[login_request[r].email] = 5
            => users'[login_request[r].email].is_locked
\* a login leaves the account with no failed attempts
LoginResets ==
    \A r \in DOMAIN login_pc :
        login_response'[r] = "logged in" /\ RequestEnds(r)
            => users'[login_request[r].email].failed_attempts = 0
\* a request for an address without account changes no account
UnknownChangesNothing ==
    \A r \in DOMAIN login_pc :
        (/\ logins_begun' # logins_begun
         /\ login_request'[r] # NoRequest
         /\ login_request'[r].email = UnknownEmail)
            => users' = users /\ login_pc'[r] = "idle" /\ login_response'[r] = "invalid"

\* C28: with requests served one after the other, an account is locked on
\* exactly the 5th failed attempt since its last successful login: a locked
\* account has failed_attempts >= 5, an unlocked one failed_attempts <= 4, a
\* successful login sets failed_attempts to 0, and a request for an unknown
\* e-mail changes no account.
C28_LockedOnFifthFailure ==
    /\ []LockedFromFive
    /\ [][LockedOnFifth /\ FifthLocks /\ LoginResets /\ UnknownChangesNothing]_vars
\* the account is locked after a login and five failed attempts, and the
\* request after those was refused
C28_Witness ==
    /\ logins_begun = 7
    /\ \E e \in DOMAIN users : users[e].is_locked /\ users[e].failed_attempts = 5
                               /\ wrong_checked[e] = 5
    /\ login_response[1] = "locked"

(***************************************************************************)
(* C29 and C30: requests served at the same time                           *)
(***************************************************************************)
\* a stored lock stays, and no request logs a locked account in
LockHolds ==
    \A e \in DOMAIN users :
        users[e].is_locked =>
            /\ users'[e].is_locked
            /\ \A r \in DOMAIN login_pc :
                   ~(RequestEnds(r) /\ login_request[r].email = e
                     /\ login_response'[r] = "logged in")

\* C29: once is_locked is stored true for an account, no later request logs
\* that account in, even with the correct password, and no request sets
\* is_locked back to false; also when a request with the correct password
\* that read the account before the lock runs interleaved with the failed
\* request that sets the lock.
C29_LockHolds == [][LockHolds]_vars
\* the lock holds against the requests that read the account after it was
\* stored: they are refused before the password is checked
LockHoldsForLaterRequests ==
    [][\A r \in DOMAIN login_pc :
          (/\ logins_begun' # logins_begun
           /\ login_pc[r] = "idle"
           /\ login_request'[r] # NoRequest
           /\ login_request'[r].email \in DOMAIN users
           /\ login_response'[r] # login_response[r] \/ login_pc'[r] # login_pc[r]
           /\ users[login_request'[r].email].is_locked)
              => login_pc'[r] = "idle" /\ users' = users]_vars

\* C30: under any interleaving of requests, at most 5 wrong passwords are
\* checked for an account between two successful logins before it is
\* locked: the read, increment and save of failed_attempts loses no failed
\* attempt.
C30_NoFailedAttemptLost == \A e \in DOMAIN users : wrong_checked[e] <= 5
\* what is stored never exceeds 5: a copy that passes the is_locked test
\* holds at most 4
StoredAttemptsAtMostFive ==
    \A e \in DOMAIN users : users[e].failed_attempts <= 5
====
